---------------------------- MODULE Spec2Model ----------------------------
(***************************************************************************)
(* A model of the Rust port of mp4ff (src/rust/mp4ff-rs): the Annex B      *)
(* converter, the AVCDecoderConfigurationRecord codec, the bit readers     *)
(* with Exp-Golomb decoding and the sample-table resolver.                 *)
(*                                                                         *)
(* Byte slices are sequences of integers 0..255.  Positions keep the       *)
(* source's 0-based convention; Slice(s, a, b) is the Rust slice s[a..b].  *)
(* u32/u64 values that can exceed TLC's integer range are kept as           *)
(* MSB-first bit vectors of their width.                                   *)
(***************************************************************************)
EXTENDS Integers, Sequences, FiniteSets, TLC

VARIABLES
    pc,         \* which operation has run: the position of the calling code
    build,      \* "debug" (overflow checks panic) or "release" (wrapping)
    sample,     \* annexb.rs: a length-prefixed sample
    stream,     \* annexb.rs: an Annex B byte stream
    out,        \* annexb.rs: result of convert_bytestream_to_nalu_sample
    rec,        \* decconf.rs: a DecConfRec
    avcc,       \* decconf.rs: avcC payload bytes
    decoded,    \* decconf.rs: result of decode_avc_decoder_config
    reencoded,  \* decconf.rs: encode() of the decoded record
    r,          \* lib.rs BitReader / slice.rs EbspReader: the reader's fields
    ret,        \* the last reader call and what it returned
    taken,      \* bits requested through read, read_signed and read_flag so far
    tbl,        \* video_track.rs / subs.rs: the parsed sample tables
    samples,    \* result of collect_samples / collect_samples_general
    arg,        \* the arguments of the parser call under way
    res         \* its local variables while it runs, and what it returned

vars == <<pc, build, sample, stream, out, rec, avcc, decoded, reencoded,
          r, ret, taken, tbl, samples, arg, res>>

annexbVars == <<sample, stream, out>>
avccVars == <<rec, avcc, decoded, reencoded>>
readerVars == <<r, ret, taken>>
tableVars == <<tbl, samples>>
callVars == <<arg, res>>

-----------------------------------------------------------------------------
(* Bounds of the model *)

MaxNalus == 2
MaxNaluLen == 2
MaxStream == 6
MaxParamSets == 2
MaxParamSetLen == 1
MaxTail == 5
MaxData == 4
MaxLeading == 32
MaxStsc == 2
MaxChunks == 2
MaxSamples == 2
MdatLen == 1
MaxBoxes == 2
MaxPayload == 4
MaxSampleLen == 8
MaxEscLen == 6
MaxRaw == 4
MaxDeltas == 3
MaxSei == 6
MaxOps == 2
MaxUnits == 3

-----------------------------------------------------------------------------
(* Generic helpers *)

\* The Rust slice s[a..b] of a sequence (0-based, end exclusive).
Slice(s, a, b) == SubSeq(s, a + 1, b)

\* s[i] with a 0-based index.
At(s, i) == s[i + 1]

\* `let x = e; body`: the value e bound once to the name the body uses.
Let(x, F(_)) == F(x)

SeqsUpTo(S, n) == UNION {[1..k -> S] : k \in 0..n}

RECURSIVE Flatten(_)
Flatten(ss) == IF ss = <<>> THEN <<>> ELSE Head(ss) \o Flatten(Tail(ss))

\* u32::to_be_bytes for values below 2^31.
U32BE(x) ==
    <<(x \div 16777216) % 256, (x \div 65536) % 256, (x \div 256) % 256, x % 256>>

\* u32::from_be_bytes for a first byte below 128.
FromU32BE(b) == ((b[1] * 256 + b[2]) * 256 + b[3]) * 256 + b[4]

\* No parser call under way.
NoArg == [fn |-> "none"]
NoRes == [at |-> "none"]
IdleCall == arg = NoArg /\ res = NoRes

-----------------------------------------------------------------------------
(* avc/annexb.rs *)

\* Byte values used for Annex B data: the two start-code bytes and a payload byte.
AnnexBBytes == {0, 1, 2}

\* Inner loop of convert_bytestream_to_nalu_sample: advance to the next start code.
RECURSIVE ScanToStartCode(_, _)
ScanToStartCode(s, pos) ==
    IF /\ pos + 3 <= Len(s)
       /\ Slice(s, pos, pos + 3) # <<0, 0, 1>>
       /\ (pos + 4 > Len(s) \/ Slice(s, pos, pos + 4) # <<0, 0, 0, 1>>)
    THEN ScanToStartCode(s, pos + 1)
    ELSE pos

RECURSIVE BytestreamLoop(_, _, _)
BytestreamLoop(s, pos, acc) ==
    IF ~(pos + 3 <= Len(s)) THEN acc
    ELSE LET after ==
                 IF pos + 3 < Len(s) /\ Slice(s, pos, pos + 3) = <<0, 0, 1>>
                 THEN pos + 3
                 ELSE IF pos + 4 < Len(s) /\ Slice(s, pos, pos + 4) = <<0, 0, 0, 1>>
                 THEN pos + 4
                 ELSE -1
         IN  IF after = -1 THEN BytestreamLoop(s, pos + 1, acc)
             ELSE LET start == after
                      end == ScanToStartCode(s, start)
                  IN  BytestreamLoop(s, end,
                          acc \o U32BE(end - start) \o Slice(s, start, end))

convert_bytestream_to_nalu_sample(s) == BytestreamLoop(s, 0, <<>>)

RECURSIVE SampleLoop(_, _, _)
SampleLoop(s, pos, acc) ==
    IF ~(pos + 4 <= Len(s)) THEN acc
    ELSE LET len == FromU32BE(Slice(s, pos, pos + 4))
             p == pos + 4
         IN  IF p + len > Len(s) THEN acc
             ELSE SampleLoop(s, p + len,
                      acc \o <<0, 0, 0, 1>> \o Slice(s, p, p + len))

convert_sample_to_bytestream(s) == SampleLoop(s, 0, <<>>)

\* Well-formed length-prefixed samples: records of a 4-byte length and that many bytes.
NaluPayloads == SeqsUpTo(AnnexBBytes, MaxNaluLen)

PackSample(nalus) == Flatten([i \in 1..Len(nalus) |-> U32BE(Len(nalus[i])) \o nalus[i]])

WellFormedSamples == {PackSample(ns) : ns \in SeqsUpTo(NaluPayloads, MaxNalus)}

ByteStreams == SeqsUpTo(AnnexBBytes, MaxStream)

IdleAnnexB == sample = <<>> /\ stream = <<>> /\ out = <<>>

\* The caller packs a sample to Annex B form.
SampleToBytestream ==
    /\ pc = "sample"
    /\ stream' = convert_sample_to_bytestream(sample)
    /\ pc' = "packed"
    /\ UNCHANGED <<build, sample, out, avccVars, readerVars, tableVars, callVars>>

\* The caller converts an Annex B stream to a length-prefixed sample.
BytestreamToSample ==
    /\ pc \in {"stream", "packed"}
    /\ out' = convert_bytestream_to_nalu_sample(stream)
    /\ pc' = IF pc = "packed" THEN "roundtrip" ELSE "converted"
    /\ UNCHANGED <<build, sample, stream, avccVars, readerVars, tableVars, callVars>>

-----------------------------------------------------------------------------
(* avc/decconf.rs *)

NoValue == [some |-> FALSE]
Some(x) == [some |-> TRUE, v |-> x]

\* (n as u16).to_be_bytes()
U16BE(x) == <<(x \div 256) % 256, x % 256>>

\* u16::from_be_bytes
FromU16BE(b) == b[1] * 256 + b[2]

\* One `for _ in 0..count` loop of decode_avc_decoder_config: `count` entries of
\* (u16-be length, bytes) starting at pos.  ok = FALSE is the `return None`.
RECURSIVE ReadEntriesNoAdvance(_, _, _, _)
ReadEntriesNoAdvance(data, pos, count, acc) ==
    IF count = 0 THEN [ok |-> TRUE, pos |-> pos, list |-> acc]
    ELSE IF pos + 2 > Len(data) THEN [ok |-> FALSE, pos |-> pos, list |-> acc]
    ELSE LET len == FromU16BE(Slice(data, pos, pos + 2))
             p == pos + 2
         IN  IF p + len > Len(data) THEN [ok |-> FALSE, pos |-> p, list |-> acc]
             ELSE ReadEntriesNoAdvance(data, p, count - 1,
                      Append(acc, Slice(data, p, p + len)))

RECURSIVE ReadEntries(_, _, _, _)
ReadEntries(data, pos, count, acc) ==
    IF count = 0 THEN [ok |-> TRUE, pos |-> pos, list |-> acc]
    ELSE IF pos + 2 > Len(data) THEN [ok |-> FALSE, pos |-> pos, list |-> acc]
    ELSE LET len == FromU16BE(Slice(data, pos, pos + 2))
             p == pos + 2
         IN  IF p + len > Len(data) THEN [ok |-> FALSE, pos |-> p, list |-> acc]
             ELSE ReadEntries(data, p + len, count - 1,
                      Append(acc, Slice(data, p, p + len)))

decode_avc_decoder_config(data) ==
    IF Len(data) < 6 THEN NoValue
    ELSE IF At(data, 0) # 1 THEN NoValue
    ELSE IF At(data, 4) % 4 # 3 THEN NoValue          \* data[4] & 0x03
    ELSE LET num_sps == At(data, 5) % 32               \* data[5] & 0x1f
             s == ReadEntries(data, 6, num_sps, <<>>)
         IN  IF ~s.ok THEN NoValue
             ELSE IF s.pos >= Len(data) THEN NoValue
             ELSE LET num_pps == At(data, s.pos)
                      p == ReadEntries(data, s.pos + 1, num_pps, <<>>)
                  IN  IF ~p.ok THEN NoValue
                      ELSE Some([profile_indication |-> At(data, 1),
                                 profile_compatibility |-> At(data, 2),
                                 level_indication |-> At(data, 3),
                                 sps |-> s.list,
                                 pps |-> p.list])

EncodeEntries(list) ==
    Flatten([i \in 1..Len(list) |-> U16BE(Len(list[i]) % 65536) \o list[i]])

\* DecConfRec::encode.  0xe0 | (n as u8) keeps the low five bits of n and sets the rest.
encode(c) ==
    <<1, c.profile_indication, c.profile_compatibility, c.level_indication, 255>>
    \o <<224 + ((Len(c.sps) % 256) % 32)>>
    \o EncodeEntries(c.sps)
    \o <<Len(c.pps) % 256>>
    \o EncodeEntries(c.pps)

ParamSetBytes == {1, 2}
ParamSets == SeqsUpTo(ParamSetBytes, MaxParamSetLen)
ParamSetLists == SeqsUpTo(ParamSets, MaxParamSets)

DecConfRecs ==
    [profile_indication : {66, 100}, profile_compatibility : {0},
     level_indication : {30}, sps : ParamSetLists, pps : ParamSetLists]

\* avcC payloads handed to the decoder: a six-byte head followed by any tail, and
\* the payloads too short to hold a head.
AvccInputs ==
    {<<ver, 100, 0, 30, b4, b5>> \o tail :
        ver \in {0, 1}, b4 \in {255, 254, 3}, b5 \in {224, 225, 226, 1},
        tail \in SeqsUpTo({0, 1, 2}, MaxTail)}
    \cup {<<>>, <<1>>, <<1, 100, 0, 30, 255>>}

NoRec ==
    [profile_indication |-> 0, profile_compatibility |-> 0, level_indication |-> 0,
     sps |-> <<>>, pps |-> <<>>]

IdleAvcc == rec = NoRec /\ avcc = <<>> /\ decoded = NoValue /\ reencoded = <<>>

Encode ==
    /\ pc = "rec"
    /\ avcc' = encode(rec)
    /\ pc' = "encoded"
    /\ UNCHANGED <<build, rec, decoded, reencoded, annexbVars, readerVars, tableVars, callVars>>

Decode ==
    /\ pc \in {"encoded", "avcc"}
    /\ decoded' = decode_avc_decoder_config(avcc)
    /\ pc' = IF pc = "encoded" THEN "rec_roundtrip" ELSE "decoded"
    /\ UNCHANGED <<build, rec, avcc, reencoded, annexbVars, readerVars, tableVars, callVars>>

Reencode ==
    /\ pc = "decoded"
    /\ decoded.some
    /\ reencoded' = encode(decoded.v)
    /\ pc' = "reencoded"
    /\ UNCHANGED <<build, rec, avcc, decoded, annexbVars, readerVars, tableVars, callVars>>

-----------------------------------------------------------------------------
(* lib.rs BitReader and avc/slice.rs EbspReader *)

Zeros(k) == [i \in 1..k |-> 0]
Ones(k) == [i \in 1..k |-> 1]

\* The eight bits of a byte, most significant first.
Bits8(b) == [i \in 1..8 |-> (b \div (2 ^ (8 - i))) % 2]

\* A bit string zero-extended to a u32.
ZeroExt32(bits) == Zeros(32 - Len(bits)) \o bits

IsZero(v) == \A i \in DOMAIN v : v[i] = 0

\* u64: (value << 8) | b.  Bits shifted past bit 63 are lost.
Shl8Or(value, b) == [i \in 1..64 |-> IF i <= 56 THEN value[i + 8] ELSE Bits8(b)[i - 56]]

\* u64: value >> k
Shr64(value, k) == [i \in 1..64 |-> IF i <= k THEN 0 ELSE value[i - k]]

\* u32: v >> k
Shr32(v, k) == [i \in 1..32 |-> IF i <= k THEN 0 ELSE v[i - k]]

\* u64 as u32
AsU32(value) == [i \in 1..32 |-> value[i + 32]]

\* u64: value & ((1 << n) - 1), for n < 64
MaskLow64(value, n) == [i \in 1..64 |-> IF i > 64 - n THEN value[i] ELSE 0]

\* BitReader::new / EbspReader::new over a Cursor on `data`.  cur is the cursor's
\* position in rd.
NewReader(kind, data) ==
    [kind |-> kind, rd |-> data, cur |-> 0, err |-> "None", n |-> 0,
     value |-> Zeros(64), pos |-> -1, zero_count |-> 0]

\* The tail of read() without `self.value &= Self::mask(self.n)`: the bits handed
\* out stay in the buffer.
TakeBitsNoMask(rdr, n) ==
    [r |-> [rdr EXCEPT !.n = rdr.n - n],
     val |-> AsU32(Shr64(rdr.value, rdr.n - n))]

\* The tail of read(): take the n top bits of the self.n buffered ones.
TakeBits(rdr, n) ==
    [r |-> [rdr EXCEPT !.n = rdr.n - n, !.value = MaskLow64(rdr.value, rdr.n - n)],
     val |-> AsU32(Shr64(rdr.value, rdr.n - n))]

\* BitReader::read without the check of the accumulated error.
RECURSIVE BitReaderFill(_, _)
BitReaderFill(rdr, n) ==
    IF rdr.n < n
    THEN IF rdr.cur >= Len(rdr.rd)
         THEN [r |-> [rdr EXCEPT !.err = "UnexpectedEof"], val |-> Zeros(32)]
         ELSE BitReaderFill([rdr EXCEPT !.pos = rdr.pos + 1,
                                        !.cur = rdr.cur + 1,
                                        !.value = Shl8Or(rdr.value, At(rdr.rd, rdr.cur)),
                                        !.n = rdr.n + 8], n)
    ELSE TakeBits(rdr, n)

\* BitReader::read without `if self.err.is_some() { return 0; }`.
BitReader_read_unchecked(rdr, n) == BitReaderFill(rdr, n)

\* BitReader::read
BitReader_read(rdr, n) ==
    IF rdr.err # "None" THEN [r |-> rdr, val |-> Zeros(32)]
    ELSE BitReaderFill(rdr, n)

RECURSIVE EbspReaderFill(_, _)
EbspReaderFill(rdr, n) ==
    IF rdr.n < n
    THEN IF rdr.cur >= Len(rdr.rd)
         THEN [r |-> [rdr EXCEPT !.err = "UnexpectedEof"], val |-> Zeros(32)]
         ELSE LET b1 == At(rdr.rd, rdr.cur)
                  r1 == [rdr EXCEPT !.cur = rdr.cur + 1, !.pos = rdr.pos + 1]
                  escaped == r1.zero_count = 2 /\ b1 = 3
              IN  IF escaped /\ r1.cur >= Len(r1.rd)
                  THEN [r |-> [r1 EXCEPT !.err = "UnexpectedEof"], val |-> Zeros(32)]
                  ELSE LET b == IF escaped THEN At(r1.rd, r1.cur) ELSE b1
                           r2 == IF escaped
                                 THEN [r1 EXCEPT !.cur = r1.cur + 1, !.pos = r1.pos + 1,
                                                 !.zero_count = 0]
                                 ELSE r1
                           zc == IF b = 0 THEN r2.zero_count + 1 ELSE 0
                       IN  EbspReaderFill([r2 EXCEPT !.zero_count = zc,
                                                     !.value = Shl8Or(r2.value, b),
                                                     !.n = r2.n + 8], n)
    ELSE TakeBits(rdr, n)

\* EbspReader::read
EbspReader_read(rdr, n) ==
    IF rdr.err # "None" THEN [r |-> rdr, val |-> Zeros(32)]
    ELSE EbspReaderFill(rdr, n)

\* read() of whichever reader rdr is.
read(rdr, n) ==
    IF rdr.kind = "BitReader" THEN BitReader_read(rdr, n) ELSE EbspReader_read(rdr, n)

\* read_signed(), the same code in both readers.  `!0 << n` overflows the i32 shift
\* for n = 32: a panic with overflow checks, a shift by n % 32 without.
read_signed(rdr, n, bld) ==
    LET x == read(rdr, n)
        v == x.val
    IN  IF n = 0 THEN [r |-> x.r, val |-> Zeros(32), panic |-> FALSE]
        ELSE IF Shr32(v, n - 1) = ZeroExt32(<<1>>)
        THEN IF n >= 32 /\ bld = "debug"
             THEN [r |-> x.r, val |-> Zeros(32), panic |-> TRUE]
             ELSE LET sh == n % 32
                  IN  [r |-> x.r,
                       val |-> [i \in 1..32 |-> IF i <= 32 - sh THEN 1 ELSE v[i]],
                       panic |-> FALSE]
        ELSE [r |-> x.r, val |-> v, panic |-> FALSE]

\* read_flag(): read(1) == 1
read_flag(rdr) ==
    LET x == read(rdr, 1) IN [r |-> x.r, flag |-> (x.val = ZeroExt32(<<1>>))]

\* BitReader::read_remaining_bytes
read_remaining_bytes(rdr) ==
    IF rdr.err # "None" THEN [r |-> rdr, bytes |-> NoValue]
    ELSE IF rdr.n # 0 THEN [r |-> [rdr EXCEPT !.err = "NotAligned"], bytes |-> NoValue]
    ELSE [r |-> [rdr EXCEPT !.cur = Len(rdr.rd)],
          bytes |-> Some(Slice(rdr.rd, rdr.cur, Len(rdr.rd)))]

\* nr_bytes_read without the `+ 1`.
nr_bytes_read_pos(rdr) == rdr.pos

nr_bytes_read(rdr) == rdr.pos + 1

nr_bits_read_in_current_byte(rdr) == 8 - rdr.n

nr_bits_read(rdr) ==
    LET nr == nr_bytes_read(rdr) * 8
    IN  IF nr_bits_read_in_current_byte(rdr) # 8
        THEN nr + (nr_bits_read_in_current_byte(rdr) - 8)
        ELSE nr

acc_error(rdr) == rdr.err

Builds == {"debug", "release"}

\* Widths asked of read() and read_signed(): the ends of 0..=32 and some between.
Widths == {0, 1, 13, 32}

\* Input bytes: 0 and 3 make emulation prevention sequences, 165 = 0xA5 leads with a
\* one bit.
FirstBytes == {0, 165}

ReaderBytes == {0, 3}

ReaderInputs ==
    {<<>>} \cup {<<b>> \o s : b \in FirstBytes, s \in SeqsUpTo(ReaderBytes, MaxData - 1)}

\* The position of the reader in its input, in bits.
BitsConsumed(rdr) == 8 * rdr.cur - rdr.n

NoRet ==
    [op |-> "new", at |-> 0, n |-> 0, val |-> Zeros(32), flag |-> FALSE,
     bytes |-> NoValue]

NoReader == NewReader("BitReader", <<>>)

\* The record of a call of `op` with width n on the reader as it is now.
Called(op, n) == [NoRet EXCEPT !.op = op, !.at = BitsConsumed(r), !.n = n]

IdleReader == r = NoReader /\ ret = NoRet /\ taken = 0

\* Bits requested so far; calls on a failed reader are not counted.
Taken(n) == IF r.err = "None" THEN taken + n ELSE taken

Read(n) ==
    /\ pc \in {"reader", "drained"}
    /\ LET x == read(r, n)
       IN  /\ r' = x.r
           /\ ret' = [Called("read", n) EXCEPT !.val = x.val]
    /\ taken' = Taken(n)
    /\ UNCHANGED <<pc, build, annexbVars, avccVars, tableVars, callVars>>

ReadSigned(n) ==
    /\ pc \in {"reader", "drained"}
    /\ LET x == read_signed(r, n, build)
       IN  /\ r' = x.r
           /\ ret' = [Called("read_signed", n) EXCEPT !.val = x.val]
           /\ pc' = IF x.panic THEN "panic" ELSE pc
    /\ taken' = Taken(n)
    /\ UNCHANGED <<build, annexbVars, avccVars, tableVars, callVars>>

ReadFlag ==
    /\ pc \in {"reader", "drained"}
    /\ LET x == read_flag(r)
       IN  /\ r' = x.r
           /\ ret' = [Called("read_flag", 1) EXCEPT !.flag = x.flag]
    /\ taken' = Taken(1)
    /\ UNCHANGED <<pc, build, annexbVars, avccVars, tableVars, callVars>>

ReadRemainingBytes ==
    /\ pc \in {"reader", "drained"}
    /\ r.kind = "BitReader"
    /\ LET x == read_remaining_bytes(r)
       IN  /\ r' = x.r
           /\ ret' = [Called("read_remaining_bytes", 0) EXCEPT !.bytes = x.bytes]
    /\ pc' = "drained"
    /\ UNCHANGED <<build, taken, annexbVars, avccVars, tableVars, callVars>>

-----------------------------------------------------------------------------
(* Exp-Golomb: read_ue of avc/sps.rs, avc/pps.rs (BitReader) and avc/slice.rs *)
(* (EbspReader, and read_ue_br on BitReader): the same code in each.         *)

\* A bit string as a natural number (below 2^31): the value of its two halves.
RECURSIVE BitsToNat(_)
BitsToNat(bits) ==
    IF Len(bits) = 0 THEN 0
    ELSE IF Len(bits) = 1 THEN bits[1]
    ELSE LET h == Len(bits) \div 2
         IN  BitsToNat(SubSeq(bits, 1, h)) * 2 ^ (Len(bits) - h)
                 + BitsToNat(SubSeq(bits, h + 1, Len(bits)))

\* The w-bit binary form of n, most significant bit first.
NatBits(n, w) == [i \in 1..w |-> (n \div 2 ^ (w - i)) % 2]

\* u32 addition: the wrapped sum and whether it overflowed.  The sum is taken in
\* two halves of 16 bits, the carry of the low half going into the high one.
Add32(a, b) ==
    LET lo == BitsToNat(SubSeq(a, 17, 32)) + BitsToNat(SubSeq(b, 17, 32))
        hi == BitsToNat(SubSeq(a, 1, 16)) + BitsToNat(SubSeq(b, 1, 16)) + lo \div 65536
    IN  [sum |-> NatBits(hi % 65536, 16) \o NatBits(lo % 65536, 16),
         overflow |-> hi >= 65536]

\* The `while r.read(1) == 0` loop: done = TRUE when a one bit ended it, FALSE when
\* the reader failed.
RECURSIVE CountLeading(_, _)
CountLeading(rdr, leading) ==
    Let(read(rdr, 1), LAMBDA x :
        IF IsZero(x.val)
        THEN IF acc_error(x.r) # "None"
             THEN [r |-> x.r, leading |-> leading, done |-> FALSE]
             ELSE CountLeading(x.r, leading + 1)
        ELSE [r |-> x.r, leading |-> leading, done |-> TRUE])

\* read_ue with `prefix = 1 << leading` in place of `(1 << leading) - 1`.
read_ue_prefix_off_by_one(rdr, bld) ==
    Let(CountLeading(rdr, 0), LAMBDA c :
        IF ~c.done THEN [r |-> c.r, val |-> Zeros(32), panic |-> FALSE]
        ELSE IF c.leading >= 32 /\ bld = "debug"
        THEN [r |-> c.r, val |-> Zeros(32), panic |-> TRUE]
        ELSE Let(IF c.leading > 0 THEN read(c.r, c.leading)
                 ELSE [r |-> c.r, val |-> Zeros(32)], LAMBDA x :
             Let(Add32(Zeros(31 - (c.leading % 32)) \o <<1>> \o Zeros(c.leading % 32), x.val), LAMBDA t :
                 IF t.overflow /\ bld = "debug"
                 THEN [r |-> x.r, val |-> Zeros(32), panic |-> TRUE]
                 ELSE [r |-> x.r, val |-> t.sum, panic |-> FALSE])))

\* read_ue.  `1u32 << leading` overflows the shift for leading >= 32 and
\* `prefix + suffix` can overflow u32: a panic with overflow checks, a shift by
\* leading % 32 and a wrapped sum without.
read_ue(rdr, bld) ==
    Let(CountLeading(rdr, 0), LAMBDA c :
        IF ~c.done THEN [r |-> c.r, val |-> Zeros(32), panic |-> FALSE]
        ELSE IF c.leading >= 32 /\ bld = "debug"
        THEN [r |-> c.r, val |-> Zeros(32), panic |-> TRUE]
        ELSE Let(IF c.leading > 0 THEN read(c.r, c.leading)
                 ELSE [r |-> c.r, val |-> Zeros(32)], LAMBDA x :
             Let(Add32(Zeros(32 - (c.leading % 32)) \o Ones(c.leading % 32), x.val), LAMBDA t :
                 IF t.overflow /\ bld = "debug"
                 THEN [r |-> x.r, val |-> Zeros(32), panic |-> TRUE]
                 ELSE [r |-> x.r, val |-> t.sum, panic |-> FALSE])))

\* Bytes of a bit string whose length is a multiple of 8.
PackBits(bits) ==
    [j \in 1..(Len(bits) \div 8) |->
        LET o == 8 * (j - 1)
        IN  128 * bits[o + 1] + 64 * bits[o + 2] + 32 * bits[o + 3] + 16 * bits[o + 4]
            + 8 * bits[o + 5] + 4 * bits[o + 6] + 2 * bits[o + 7] + bits[o + 8]]

\* The bits of a byte sequence, most significant bit of the first byte first.
AllBits(data) ==
    [i \in 1..(8 * Len(data)) |-> Bits8(data[((i - 1) \div 8) + 1])[((i - 1) % 8) + 1]]

\* Suffixes tried for a code with k leading zeros.
Suffixes(k) ==
    {Zeros(k), Ones(k), [i \in 1..k |-> i % 2], [i \in 1..k |-> (i + 1) % 2]}

\* Number of bits that fill a string of n bits up to a whole byte.
PadTo8(n) == (8 - (n % 8)) % 8

\* Inputs to read_ue: a code of k zeros, a one and a k-bit suffix, then bits that
\* fill the last byte and one more byte; also such an input cut short by a byte.
UeCodes(k) ==
    {PackBits(Zeros(k) \o <<1>> \o s \o [i \in 1..(PadTo8(2 * k + 1) + 8) |-> fill]) :
        s \in Suffixes(k), fill \in {0, 1}}

UeInputs ==
    UNION {UeCodes(k) : k \in 0..MaxLeading}
    \cup {LET full == PackBits(Zeros(k) \o <<1>> \o Zeros(k) \o Zeros(PadTo8(2 * k + 1)))
          IN  SubSeq(full, 1, Len(full) - 1) : k \in 0..MaxLeading}

ReadUe ==
    /\ pc = "golomb"
    /\ LET x == read_ue(r, build)
       IN  /\ r' = x.r
           /\ ret' = [Called("read_ue", 0) EXCEPT !.val = x.val]
           /\ pc' = IF x.panic THEN "panic" ELSE pc
    /\ UNCHANGED <<build, taken, annexbVars, avccVars, tableVars, callVars>>

-----------------------------------------------------------------------------
(* video_track.rs collect_samples and subs.rs collect_samples_general *)

\* A u64 within 2^30 of either end of its range: [hi |-> FALSE, v |-> n] is n and
\* [hi |-> TRUE, v |-> d] is 2^64 - d (d >= 1).  The operations below are exact on
\* these values.
U64(n) == [hi |-> FALSE, v |-> n]
U64Max == [hi |-> TRUE, v |-> 1]

\* x + k for a small k >= 0: the wrapped sum and whether it overflowed.
AddU64(x, k) ==
    IF ~x.hi THEN [sum |-> U64(x.v + k), overflow |-> FALSE]
    ELSE IF k < x.v THEN [sum |-> [hi |-> TRUE, v |-> x.v - k], overflow |-> FALSE]
    ELSE [sum |-> U64(k - x.v), overflow |-> TRUE]

\* x >= b and x <= b for a small b
GeU64(x, b) == x.hi \/ x.v >= b
LeU64(x, b) == ~x.hi /\ x.v <= b

\* x - b for a small b <= x
SubU64(x, b) == IF x.hi THEN [hi |-> TRUE, v |-> x.v + b] ELSE U64(x.v - b)

\* The byte of the file at an absolute offset: every offset holds its own value.
FileByte(a) == a % 256

\* mdat[start..end] where mdat = root[base_offset..base_offset + mdat_len]
MdatSlice(t, start, end) == [j \in 1..(end - start) |-> FileByte(t.base_offset + start + j - 1)]

\* `absolute >= base_offset` and `end <= mdat.len()`, with the bounds check dropped
\* on the lower side.
InsideMdatNoLowerBound(t, absolute, end) == LeU64(end, t.mdat_len)

\* The two tests that let a sample through: `absolute >= base_offset` and
\* `end <= mdat.len()`.
InsideMdat(t, absolute, end) == GeU64(absolute, t.base_offset) /\ LeU64(end, t.mdat_len)

\* The end of the loop body, with the decode time advanced only for a pushed sample.
NextSampleStateOnPush(st, pushed, dur) ==
    [st EXCEPT !.samples = pushed,
               !.decode_time = IF pushed # st.samples THEN st.decode_time + dur
                               ELSE st.decode_time,
               !.sample_index = st.sample_index + 1]

\* The end of the loop body: decode_time and sample_index advance for every
\* sample of the table, pushed or skipped.
NextSampleState(st, pushed, dur) ==
    [st EXCEPT !.samples = pushed,
               !.decode_time = st.decode_time + dur,
               !.sample_index = st.sample_index + 1]

\* The `for _ in 0..samples_per_chunk` loop.  st holds sample_index, decode_time,
\* the samples pushed so far and whether the code has panicked.  Each sample also
\* records its index in the tables and the offset computed for it.
RECURSIVE SamplesOfChunk(_, _, _, _, _, _)
SamplesOfChunk(t, bld, chunk_offset, left, offset_in_chunk, st) ==
    IF left = 0 \/ st.panic THEN st
    ELSE IF st.sample_index >= Len(t.sizes) THEN st
    ELSE LET size == At(t.sizes, st.sample_index)
             dur == At(t.durs, st.sample_index)
             absolute == AddU64(chunk_offset, offset_in_chunk)
             start == SubU64(absolute.sum, t.base_offset)
             end == AddU64(start, size)
             inside == InsideMdat(t, absolute.sum, end.sum)
             panics ==
                 \/ absolute.overflow /\ bld = "debug"
                 \/ /\ GeU64(absolute.sum, t.base_offset)
                    /\ \/ end.overflow /\ bld = "debug"
                       \/ inside /\ start.hi
             pushed ==
                 IF inside
                 THEN Append(st.samples,
                          [bytes |-> MdatSlice(t, start.v, end.sum.v),
                           start |-> st.decode_time,
                           dur |-> dur,
                           index |-> st.sample_index,
                           offset |-> absolute.sum])
                 ELSE st.samples
         IN  IF panics THEN [st EXCEPT !.panic = TRUE]
             ELSE SamplesOfChunk(t, bld, chunk_offset, left - 1, offset_in_chunk + size,
                      NextSampleState(st, pushed, dur))

\* The `for chunk in first_chunk..next_first_chunk` loop.  chunk - 1 underflows for
\* chunk = 0 and chunk_offsets[chunk - 1] is out of range past the last chunk
\* offset: both panic, with and without overflow checks.
RECURSIVE ChunksOfEntry(_, _, _, _, _, _)
ChunksOfEntry(t, bld, chunk, next_first_chunk, samples_per_chunk, st) ==
    IF chunk >= next_first_chunk \/ st.panic THEN st
    ELSE IF chunk - 1 < 0 \/ chunk - 1 >= Len(t.chunk_offsets)
    THEN [st EXCEPT !.panic = TRUE]
    ELSE ChunksOfEntry(t, bld, chunk + 1, next_first_chunk, samples_per_chunk,
             SamplesOfChunk(t, bld, At(t.chunk_offsets, chunk - 1),
                            samples_per_chunk, 0, st))

\* The loop over stsc_entries.
RECURSIVE EntriesFrom(_, _, _, _)
EntriesFrom(t, bld, i, st) ==
    IF i >= Len(t.stsc_entries) \/ st.panic THEN st
    ELSE LET e == At(t.stsc_entries, i)
             next_first_chunk ==
                 IF i + 1 < Len(t.stsc_entries)
                 THEN At(t.stsc_entries, i + 1).first_chunk
                 ELSE Len(t.chunk_offsets) + 1
         IN  EntriesFrom(t, bld, i + 1,
                 ChunksOfEntry(t, bld, e.first_chunk, next_first_chunk,
                               e.samples_per_chunk, st))

\* collect_samples: the samples, or panic = TRUE when the call panics.
collect_samples(t, bld) ==
    LET st == EntriesFrom(t, bld, 0,
                  [sample_index |-> 0, decode_time |-> 0, samples |-> <<>>,
                   panic |-> FALSE])
    IN  [panic |-> st.panic, samples |-> IF st.panic THEN <<>> ELSE st.samples]

\* collect_samples_general runs the same loops; it differs only in not splitting
\* the bytes of a sample into NAL units.
collect_samples_general(t, bld) == collect_samples(t, bld)

\* mdat is the first box of the file: its payload starts after an 8-byte header.
MdatPayloadStart == 8

\* stsc entries: first_chunk 0 is below the 1-based chunk numbers, 3 is beyond the
\* chunk offsets of the smaller tables.
StscEntries == [first_chunk : 0..3, samples_per_chunk : {1, 2}]

\* Chunk offsets before the mdat payload, at its start, and at the top of u64.
ChunkOffsets == {U64(MdatPayloadStart - 1), U64(MdatPayloadStart), U64Max}

\* (size, duration) of a sample.
SampleKinds == {<<0, 1>>, <<1, 2>>}

Tables ==
    {[base_offset |-> MdatPayloadStart,
      mdat_len |-> ml,
      chunk_offsets |-> co,
      stsc_entries |-> se,
      sizes |-> [i \in 1..Len(sk) |-> sk[i][1]],
      durs |-> [i \in 1..Len(sk) |-> sk[i][2]]] :
        ml \in {MdatLen},
        co \in SeqsUpTo(ChunkOffsets, MaxChunks),
        se \in SeqsUpTo(StscEntries, MaxStsc),
        sk \in SeqsUpTo(SampleKinds, MaxSamples)}

NoTables ==
    [base_offset |-> 0, mdat_len |-> 0, chunk_offsets |-> <<>>, stsc_entries |-> <<>>,
     sizes |-> <<>>, durs |-> <<>>]

NoSamples == [panic |-> FALSE, samples |-> <<>>]

IdleTables == tbl = NoTables /\ samples = NoSamples

\* video_track.rs parse_trak hands the parsed tables to collect_samples.
CollectSamples ==
    /\ pc = "tables"
    /\ samples' = collect_samples(tbl, build)
    /\ pc' = IF samples'.panic THEN "panic" ELSE "collected"
    /\ UNCHANGED <<build, tbl, annexbVars, avccVars, readerVars, callVars>>

\* subs.rs parse_trak hands them to collect_samples_general.
CollectSamplesGeneral ==
    /\ pc = "tables"
    /\ samples' = collect_samples_general(tbl, build)
    /\ pc' = IF samples'.panic THEN "panic" ELSE "collected"
    /\ UNCHANGED <<build, tbl, annexbVars, avccVars, readerVars, callVars>>

-----------------------------------------------------------------------------
(* avc/nalus.rs *)

\* get_nalus_from_sample: the NAL units of a length-prefixed sample, or None.
RECURSIVE NalusLoop(_, _, _)
NalusLoop(s, pos, nalus) ==
    IF ~(pos + 4 <= Len(s)) THEN Some(nalus)
    ELSE LET len == FromU32BE(Slice(s, pos, pos + 4))
             p == pos + 4
         IN  IF p + len > Len(s) THEN NoValue
             ELSE NalusLoop(s, p + len, Append(nalus, Slice(s, p, p + len)))

get_nalus_from_sample(s) == IF Len(s) < 4 THEN NoValue ELSE NalusLoop(s, 0, <<>>)

-----------------------------------------------------------------------------
(* subs.rs and mp4/box.rs: the box walk.  Both files hold the same            *)
(* parse_box_header and find_box_range; the text below follows subs.rs.      *)

\* Every u64 from this value up stands for itself in the comparisons of the walk:
\* it exceeds the length of every buffer.
SizeCap == 16777216

\* u64::from_be_bytes: exact below SizeCap, SizeCap for everything above.
FromU64BE(b) ==
    IF \A i \in 1..5 : b[i] = 0 THEN (b[6] * 256 + b[7]) * 256 + b[8] ELSE SizeCap

\* (n as u64).to_be_bytes() for n below SizeCap
U64BE(x) == <<0, 0, 0, 0, 0, (x \div 65536) % 256, (x \div 256) % 256, x % 256>>

\* str::from_utf8(name).ok() succeeds: ASCII bytes are valid UTF-8 and a 0xFF byte
\* never is; the names of the model hold no other bytes.
ValidUtf8(name) == \A i \in 1..Len(name) : name[i] < 128

\* read_u32: the value and the advanced position, or None.
read_u32(data, pos) ==
    IF pos + 4 > Len(data) THEN NoValue
    ELSE Some([v |-> FromU32BE(Slice(data, pos, pos + 4)), pos |-> pos + 4])

\* parse_box_header: name, size and the advanced position, or None.
parse_box_header(data, pos) ==
    IF pos + 8 > Len(data) THEN NoValue
    ELSE LET size == read_u32(data, pos)
             name == Slice(data, size.v.pos, size.v.pos + 4)
             p == size.v.pos + 4
         IN  IF size.v.v = 1
             THEN IF p + 8 > Len(data) THEN NoValue
                  ELSE IF ~ValidUtf8(name) THEN NoValue
                  ELSE Some([name |-> name,
                             size |-> FromU64BE(Slice(data, p, p + 8)),
                             pos |-> p + 8])
             ELSE IF ~ValidUtf8(name) THEN NoValue
             ELSE Some([name |-> name, size |-> size.v.v, pos |-> p])

\* Four-character codes
Fourcc_free == <<102, 114, 101, 101>>
Fourcc_mdat == <<109, 100, 97, 116>>
\* 'f' 0xFF 'e' 'e': not UTF-8
Fourcc_bad == <<102, 255, 101, 101>>

BoxNames == {Fourcc_free, Fourcc_mdat, Fourcc_bad}

\* Declared sizes: 0, below the header length, a bare header, larger ones.
BoxSizes == {0, 4, 8, 12, 20, 40}

Min(a, b) == IF a < b THEN a ELSE b

\* The bytes of a box: an 8-byte header, or a 16-byte one with size32 = 1 and a
\* largesize, then as much zero payload as the declared size asks, up to MaxPayload.
BoxBytes(size, name, large) ==
    LET hdr == IF large THEN U32BE(1) \o name \o U64BE(size) ELSE U32BE(size) \o name
        body == IF size > Len(hdr) THEN Min(size - Len(hdr), MaxPayload) ELSE 0
    IN  hdr \o Zeros(body)

Boxes == {BoxBytes(sz, nm, lg) : sz \in BoxSizes, nm \in BoxNames, lg \in BOOLEAN}

\* Buffers handed to the walk: some boxes, whole or with the last 3 bytes missing.
BoxBuffers ==
    {LET b == Flatten(bs) IN SubSeq(b, 1, Len(b) - Min(cut, Len(b))) :
        bs \in SeqsUpTo(Boxes, MaxBoxes), cut \in {0, 3}}

\* find_box_range, a step at a time.  res.at is the position in the function:
\* "while" at the loop test, "body" after parse_box_header, "return" at the end.
WalkStart(data, name) ==
    [at |-> "while", pos |-> 0, start |-> 0, box_name |-> <<>>, size |-> 0,
     out |-> NoValue]

\* `return v`
WalkReturn(st, v) == [st EXCEPT !.at = "return", !.out = v]

\* The loop test and `parse_box_header(data, &mut pos)?`
find_box_range_header(data, st) ==
    IF st.pos + 8 <= Len(data)
    THEN LET h == parse_box_header(data, st.pos)
         IN  IF ~h.some THEN WalkReturn(st, NoValue)
             ELSE [st EXCEPT !.at = "body", !.start = st.pos, !.pos = h.v.pos,
                             !.box_name = h.v.name, !.size = h.v.size]
    ELSE WalkReturn(st, NoValue)

\* The rest of the loop body: the size test, the name test, `pos = payload_end`.
find_box_range_body(data, name, st) ==
    IF st.size > Len(data) - st.start THEN WalkReturn(st, NoValue)
    ELSE LET payload_start == st.pos
             payload_end == st.start + st.size
         IN  IF st.box_name = name
             THEN WalkReturn(st, Some([start |-> st.start,
                                       payload_start |-> payload_start,
                                       payload_end |-> payload_end]))
             ELSE [st EXCEPT !.at = "while", !.pos = payload_end]

WalkHeader ==
    /\ pc = "walk"
    /\ res.at = "while"
    /\ res' = find_box_range_header(arg.data, res)
    /\ pc' = IF res'.at = "return" THEN "walked" ELSE pc
    /\ UNCHANGED <<build, arg, annexbVars, avccVars, readerVars, tableVars>>

WalkBody ==
    /\ pc = "walk"
    /\ res.at = "body"
    /\ res' = find_box_range_body(arg.data, arg.name, res)
    /\ pc' = IF res'.at = "return" THEN "walked" ELSE pc
    /\ UNCHANGED <<build, arg, annexbVars, avccVars, readerVars, tableVars>>

-----------------------------------------------------------------------------
(* Signed Exp-Golomb and the helpers shared by the PPS and slice parsers *)

\* A u32 below 2^31 as a number.
U32ToNat(v) == BitsToNat(v)

I32Max == 2147483647
I32Min == -2147483647 - 1

\* `v as i32`
AsI32(v) ==
    IF v[1] = 1 THEN (BitsToNat(SubSeq(v, 2, 32)) - I32Max) - 1 ELSE BitsToNat(v)

\* i32 division by 2, truncating toward zero
HalfI32(x) ==
    IF x >= 0 THEN x \div 2
    ELSE IF x = I32Min THEN -1073741824
    ELSE -((-x) \div 2)

\* read_se: `let ue = read_ue(r) as i32; if ue % 2 == 1 { (ue + 1) / 2 } else
\* { -(ue / 2) }`.  ue % 2 is 1 only for a positive odd ue; ue + 1 overflows for
\* i32::MAX: a panic with overflow checks, i32::MIN / 2 without.
read_se(rdr, bld) ==
    Let(read_ue(rdr, bld), LAMBDA x :
    Let(AsI32(x.val), LAMBDA ue :
        IF x.panic THEN [r |-> x.r, val |-> 0, panic |-> TRUE]
        ELSE IF ue > 0 /\ ue % 2 = 1
        THEN IF ue = I32Max
             THEN [r |-> x.r, val |-> IF bld = "debug" THEN 0 ELSE -1073741824,
                   panic |-> (bld = "debug")]
             ELSE [r |-> x.r, val |-> (ue + 1) \div 2, panic |-> FALSE]
        ELSE [r |-> x.r, val |-> -HalfI32(ue), panic |-> FALSE]))

\* Number of bits of n
RECURSIVE BitLen(_)
BitLen(n) == IF n = 0 THEN 0 ELSE 1 + BitLen(n \div 2)

\* ceil_log2
ceil_log2(v) == IF v <= 1 THEN 0 ELSE BitLen(v - 1)

\* NaluType::from_header_byte: the low five bits of the NAL header byte.
NaluTypeOf(b) == b % 32
NaluType == [NonIDR |-> 1, IDR |-> 5, SEI |-> 6, SPS |-> 7, PPS |-> 8]

\* The copy of remove_emulation_prevention_bytes without the test for an escape.
keep_emulation_prevention_bytes(data) == data

\* remove_emulation_prevention_bytes (pps.rs, sps.rs): the loop over the data.
RECURSIVE RemoveEpbFrom(_, _, _, _)
RemoveEpbFrom(data, i, zero_count, acc) ==
    IF i > Len(data) THEN acc
    ELSE LET b == data[i]
         IN  IF zero_count = 2 /\ b = 3 THEN RemoveEpbFrom(data, i + 1, 0, acc)
             ELSE RemoveEpbFrom(data, i + 1, IF b = 0 THEN zero_count + 1 ELSE 0,
                                Append(acc, b))

remove_emulation_prevention_bytes(data) == RemoveEpbFrom(data, 1, 0, <<>>)

\* `count` calls of read_ue, as the `for` loops over slice groups make them.
RECURSIVE ReadUeList(_, _, _, _)
ReadUeList(rdr, count, bld, acc) ==
    IF count = 0 THEN [r |-> rdr, list |-> acc, panic |-> FALSE]
    ELSE Let(read_ue(rdr, bld), LAMBDA x :
             IF x.panic THEN [r |-> x.r, list |-> acc, panic |-> TRUE]
             ELSE ReadUeList(x.r, count - 1, bld, Append(acc, U32ToNat(x.val))))

\* `count` calls of r.read(n)
RECURSIVE ReadBitsList(_, _, _, _)
ReadBitsList(rdr, count, n, acc) ==
    IF count = 0 THEN [r |-> rdr, list |-> acc]
    ELSE Let(read(rdr, n), LAMBDA x :
             ReadBitsList(x.r, count - 1, n, Append(acc, U32ToNat(x.val))))

\* The locals of a parser: the reader r, the fields sh read so far, and whether an
\* arithmetic overflow has panicked.  One operator per kind of statement.
SetUe(st, field, bld) ==
    IF st.panic THEN st
    ELSE Let(read_ue(st.r, bld), LAMBDA x :
             IF x.panic THEN [st EXCEPT !.r = x.r, !.panic = TRUE]
             ELSE [st EXCEPT !.r = x.r, !.sh[field] = U32ToNat(x.val)])

SetSe(st, field, bld) ==
    IF st.panic THEN st
    ELSE Let(read_se(st.r, bld), LAMBDA x :
             IF x.panic THEN [st EXCEPT !.r = x.r, !.panic = TRUE]
             ELSE [st EXCEPT !.r = x.r, !.sh[field] = x.val])

SetDeltaPicOrderCnt(st, i, bld) ==
    IF st.panic THEN st
    ELSE Let(read_se(st.r, bld), LAMBDA x :
             IF x.panic THEN [st EXCEPT !.r = x.r, !.panic = TRUE]
             ELSE [st EXCEPT !.r = x.r, !.sh.delta_pic_order_cnt[i] = x.val])

SetFlag(st, field) ==
    IF st.panic THEN st
    ELSE Let(read_flag(st.r), LAMBDA x : [st EXCEPT !.r = x.r, !.sh[field] = x.flag])

SetBits(st, field, n) ==
    IF st.panic THEN st
    ELSE Let(read(st.r, n), LAMBDA x :
             [st EXCEPT !.r = x.r, !.sh[field] = U32ToNat(x.val)])

-----------------------------------------------------------------------------
(* PPS parser (avc/pps.rs) *)

\* read_scaling_list: the loop, with k entries still to produce.
RECURSIVE ScalingListFrom(_, _, _, _, _, _)
ScalingListFrom(rdr, k, last_scale, next_scale, list, bld) ==
    IF k = 0 THEN [r |-> rdr, list |-> list, panic |-> FALSE]
    ELSE Let(IF next_scale # 0 THEN read_se(rdr, bld)
             ELSE [r |-> rdr, val |-> 0, panic |-> FALSE], LAMBDA x :
         LET sum == last_scale + x.val + 256
             \* i32 `%` keeps the sign of the dividend
             nxt == IF next_scale = 0 THEN 0
                    ELSE IF sum >= 0 THEN sum % 256 ELSE -((-sum) % 256)
             pushed == IF nxt = 0 THEN last_scale ELSE nxt
         IN  IF x.panic THEN [r |-> x.r, list |-> list, panic |-> TRUE]
             ELSE ScalingListFrom(x.r, k - 1, pushed, nxt, Append(list, pushed), bld))

read_scaling_list(rdr, size, bld) == ScalingListFrom(rdr, size, 8, 8, <<>>, bld)

\* `for i in 0..nr_scaling_lists`
RECURSIVE ScalingListsFrom(_, _, _, _, _)
ScalingListsFrom(rdr, i, nr_scaling_lists, lists, bld) ==
    IF i >= nr_scaling_lists THEN [r |-> rdr, lists |-> lists, panic |-> FALSE]
    ELSE Let(read_flag(rdr), LAMBDA present :
             IF ~present.flag
             THEN ScalingListsFrom(present.r, i + 1, nr_scaling_lists,
                                   Append(lists, NoValue), bld)
             ELSE Let(read_scaling_list(present.r, IF i < 6 THEN 16 ELSE 64, bld),
                      LAMBDA l :
                      IF l.panic THEN [r |-> l.r, lists |-> lists, panic |-> TRUE]
                      ELSE ScalingListsFrom(l.r, i + 1, nr_scaling_lists,
                                            Append(lists, Some(l.list)), bld)))

\* more_rbsp_data with the test left out: the extended fields are always read.
more_rbsp_data_always(rdr, total_bits) == TRUE

\* `(r.nr_bits_read() as usize) < total_bits`
more_rbsp_data(rdr, total_bits) == nr_bits_read(rdr) < total_bits

\* The locals of parse_pps_nalu before the first read.
PpsLocals ==
    [pic_parameter_set_id |-> 0, seq_parameter_set_id |-> 0,
     entropy_coding_mode_flag |-> FALSE,
     bottom_field_pic_order_in_frame_present_flag |-> FALSE,
     num_slice_groups_minus1 |-> 0, slice_group_map_type |-> 0,
     run_length_minus1 |-> <<>>, top_left |-> <<>>, bottom_right |-> <<>>,
     slice_group_change_direction_flag |-> FALSE,
     slice_group_change_rate_minus1 |-> 0, pic_size_in_map_units_minus1 |-> 0,
     slice_group_id |-> <<>>,
     num_ref_idx_i0_default_active_minus1 |-> 0,
     num_ref_idx_i1_default_active_minus1 |-> 0,
     weighted_pred_flag |-> FALSE, weighted_bipred_idc |-> 0,
     pic_init_qp_minus26 |-> 0, pic_init_qs_minus26 |-> 0,
     chroma_qp_index_offset |-> 0, deblocking_filter_control_present_flag |-> FALSE,
     constrained_intra_pred_flag |-> FALSE, redundant_pic_cnt_present_flag |-> FALSE,
     transform8x8_mode_flag |-> FALSE, pic_scaling_matrix_present_flag |-> FALSE,
     pic_scaling_lists |-> <<>>, second_chroma_qp_index_offset |-> 0]

\* `if num_slice_groups_minus1 > 0 { ... }`: the slice group fields.
PpsSliceGroups(st, bld) ==
    IF st.panic \/ st.sh.num_slice_groups_minus1 = 0 THEN st
    ELSE Let(SetUe(st, "slice_group_map_type", bld), LAMBDA t :
         LET type == t.sh.slice_group_map_type
             n == st.sh.num_slice_groups_minus1 + 1
         IN  IF t.panic THEN t
             ELSE IF type = 0
             THEN Let(ReadUeList(t.r, n, bld, <<>>), LAMBDA l :
                      [t EXCEPT !.r = l.r, !.panic = l.panic,
                                !.sh.run_length_minus1 = l.list])
             ELSE IF type = 2
             THEN Let(ReadUeList(t.r, 2 * n, bld, <<>>), LAMBDA l :
                      LET k == Len(l.list) \div 2
                      IN  [t EXCEPT !.r = l.r, !.panic = l.panic,
                                    !.sh.top_left = [i \in 1..k |-> l.list[2 * i - 1]],
                                    !.sh.bottom_right = [i \in 1..k |-> l.list[2 * i]]])
             ELSE IF type \in {3, 4, 5}
             THEN SetUe(SetFlag(t, "slice_group_change_direction_flag"),
                        "slice_group_change_rate_minus1", bld)
             ELSE IF type = 6
             THEN Let(ReadBitsList(t.r, n, ceil_log2(n), <<>>), LAMBDA l :
                      [t EXCEPT !.r = l.r, !.sh.slice_group_id = l.list])
             ELSE t)

\* The statements of parse_pps_nalu from pic_parameter_set_id to
\* redundant_pic_cnt_present_flag, in the order of the code.
PpsStatement(i, st, bld) ==
    CASE i = 1 -> SetUe(st, "pic_parameter_set_id", bld)
      [] i = 2 -> SetUe(st, "seq_parameter_set_id", bld)
      [] i = 3 -> SetFlag(st, "entropy_coding_mode_flag")
      [] i = 4 -> SetFlag(st, "bottom_field_pic_order_in_frame_present_flag")
      [] i = 5 -> SetUe(st, "num_slice_groups_minus1", bld)
      [] i = 6 -> PpsSliceGroups(st, bld)
      [] i = 7 -> SetUe(st, "num_ref_idx_i0_default_active_minus1", bld)
      [] i = 8 -> SetUe(st, "num_ref_idx_i1_default_active_minus1", bld)
      [] i = 9 -> SetFlag(st, "weighted_pred_flag")
      [] i = 10 -> SetBits(st, "weighted_bipred_idc", 2)
      [] i = 11 -> SetSe(st, "pic_init_qp_minus26", bld)
      [] i = 12 -> SetSe(st, "pic_init_qs_minus26", bld)
      [] i = 13 -> SetSe(st, "chroma_qp_index_offset", bld)
      [] i = 14 -> SetFlag(st, "deblocking_filter_control_present_flag")
      [] i = 15 -> SetFlag(st, "constrained_intra_pred_flag")
      [] i = 16 -> SetFlag(st, "redundant_pic_cnt_present_flag")

\* Statements i..n, one after the other, up to one that panics.
RECURSIVE PpsStatements(_, _, _, _)
PpsStatements(i, n, st, bld) ==
    IF i > n \/ st.panic THEN st
    ELSE PpsStatements(i + 1, n, PpsStatement(i, st, bld), bld)

\* `if pic_scaling_matrix_present_flag { ... }`
PpsScalingMatrix(st, bld) ==
    IF st.panic \/ ~st.sh.pic_scaling_matrix_present_flag THEN st
    ELSE Let(ScalingListsFrom(st.r, 0, IF st.sh.transform8x8_mode_flag THEN 8 ELSE 6,
                              <<>>, bld), LAMBDA l :
             [st EXCEPT !.r = l.r, !.panic = l.panic, !.sh.pic_scaling_lists = l.lists])

\* The extended fields, from transform8x8_mode_flag on.
PpsExtension(st, total_bits, bld) ==
    IF st.panic \/ ~more_rbsp_data(st.r, total_bits) THEN st
    ELSE Let(SetFlag(st, "transform8x8_mode_flag"), LAMBDA t :
             IF ~more_rbsp_data(t.r, total_bits) THEN t
             ELSE Let(PpsScalingMatrix(SetFlag(t, "pic_scaling_matrix_present_flag"),
                                       bld), LAMBDA l :
                      IF l.panic \/ ~more_rbsp_data(l.r, total_bits) THEN l
                      ELSE SetSe(l, "second_chroma_qp_index_offset", bld)))

\* parse_pps_nalu.  r_mand is the reader after redundant_pic_cnt_present_flag,
\* r_end the reader at the return.
parse_pps_nalu(nalu, bld) ==
    IF nalu = <<>> \/ NaluTypeOf(nalu[1]) # NaluType.PPS
    THEN [at |-> "return", out |-> NoValue, panic |-> FALSE, total_bits |-> 0,
          r_mand |-> NewReader("BitReader", <<>>),
          r_end |-> NewReader("BitReader", <<>>)]
    ELSE Let(remove_emulation_prevention_bytes(Slice(nalu, 1, Len(nalu))),
             LAMBDA bytes :
         Let(PpsStatements(1, 16, [r |-> NewReader("BitReader", bytes),
                                   panic |-> FALSE, sh |-> PpsLocals], bld),
             LAMBDA m :
         Let(PpsExtension(m, Len(bytes) * 8, bld), LAMBDA e :
             [at |-> "return", panic |-> e.panic, total_bits |-> Len(bytes) * 8,
              r_mand |-> m.r, r_end |-> e.r,
              out |-> IF e.panic THEN NoValue ELSE Some(e.sh)])))

\* The Exp-Golomb code that read_ue decodes to n: k zeros, then n + 1 in k + 1 bits.
UeBits(n) == Zeros(BitLen(n + 1) - 1) \o NatBits(n + 1, BitLen(n + 1))

\* The code that read_se decodes to v.
SeBits(v) == IF v > 0 THEN UeBits(2 * v - 1) ELSE UeBits(-2 * v)

FlagBit(f) == IF f THEN <<1>> ELSE <<0>>

\* Bits padded with zeros to whole bytes.
PadBytes(bits) == PackBits(bits \o Zeros(PadTo8(Len(bits))))

\* The slice group part of a PPS with two slice groups of map type t.
SliceGroupBits(t) ==
    UeBits(t) \o
    (IF t = 0 THEN UeBits(1) \o UeBits(0)
     ELSE IF t = 2 THEN UeBits(0) \o UeBits(2) \o UeBits(1) \o UeBits(0)
     ELSE IF t = 3 THEN <<1>> \o UeBits(2)
     ELSE IF t = 6 THEN <<1, 0>>
     ELSE <<>>)

\* Values of the mandatory fields tried.  groups = -1: one slice group.
PpsFieldValues ==
    [id : {0, 1}, entropy : BOOLEAN, groups : {-1, 0, 2, 3, 6, 7}, l0 : {0, 2},
     qp : {0, -2}, redundant : BOOLEAN]

\* pic_parameter_set_id .. redundant_pic_cnt_present_flag as the parser reads them.
PpsMandatoryBits(f) ==
    UeBits(f.id) \o UeBits(0) \o FlagBit(f.entropy) \o <<0>>
    \o (IF f.groups = -1 THEN UeBits(0) ELSE UeBits(1) \o SliceGroupBits(f.groups))
    \o UeBits(f.l0) \o UeBits(0) \o FlagBit(f.entropy) \o NatBits(2, 2)
    \o SeBits(f.qp) \o SeBits(0) \o SeBits(f.qp)
    \o <<1, 0>> \o FlagBit(f.redundant)

\* What follows the mandatory fields: nothing, the RBSP stop bit, or extended fields
\* (without a scaling matrix, with an absent one, with a first list of one delta
\* that latches next_scale to 0) and the stop bit.
PpsTails ==
    {<<>>, <<1>>,
     <<1, 0>> \o SeBits(-2) \o <<1>>,
     <<0, 0>> \o SeBits(1) \o <<1>>,
     <<0, 1, 0, 0, 0, 0, 0, 0>> \o SeBits(0) \o <<1>>,
     <<1, 1, 1>> \o SeBits(-8) \o <<0, 0, 0, 0, 0, 0, 0>> \o SeBits(3) \o <<1>>}

\* The NAL header byte of a PPS (nal_ref_idc 3, type 8) and of an SPS.
PpsHeader == 104
SpsHeader == 103

Prefixes(seq) == {SubSeq(seq, 1, k) : k \in 0..Len(seq)}

\* PPS NAL units as encoders write them and every truncation of them, the unit of
\* tests/pps_test.rs, one with an emulation prevention byte, and an SPS.
PpsNalus ==
    UNION {Prefixes(<<PpsHeader>> \o PadBytes(PpsMandatoryBits(f) \o t)) :
               f \in PpsFieldValues, t \in PpsTails}
    \cup {<<104, 232, 67, 50, 200, 176>>, <<104, 206, 0, 0, 3, 1, 128>>,
          <<SpsHeader, 206, 56, 128>>}

ParsePps ==
    /\ pc = "pps"
    /\ res' = parse_pps_nalu(arg.nalu, build)
    /\ pc' = IF res'.panic THEN "panic" ELSE "pps_parsed"
    /\ UNCHANGED <<build, arg, annexbVars, avccVars, readerVars, tableVars>>

-----------------------------------------------------------------------------
(* Slice header parser (avc/slice.rs) *)

SliceType == [P |-> 0, B |-> 1, I |-> 2, SP |-> 3, SI |-> 4]

\* SliceHeader::default()
SliceHeader_default ==
    [slice_type |-> 0, first_mb_in_slice |-> 0, pic_param_id |-> 0, seq_param_id |-> 0,
     color_plane_id |-> 0, frame_num |-> 0, idr_pic_id |-> 0, pic_order_cnt_lsb |-> 0,
     delta_pic_order_cnt_bottom |-> 0, delta_pic_order_cnt |-> <<0, 0>>,
     redundant_pic_cnt |-> 0, num_ref_idx_l0_active_minus1 |-> 0,
     num_ref_idx_l1_active_minus1 |-> 0, modification_of_pic_nums_idc |-> 0,
     abs_diff_pic_num_minus1 |-> 0, long_term_pic_num |-> 0,
     abs_diff_view_idx_minus1 |-> 0, luma_log2_weight_denom |-> 0,
     chroma_log2_weight_denom |-> 0, difference_of_pic_nums_minus1 |-> 0,
     long_term_fram_idx |-> 0, max_long_term_frame_idx_plus1 |-> 0,
     cabac_init_idc |-> 0, slice_qp_delta |-> 0, slice_qs_delta |-> 0,
     disable_deblocking_filter_idc |-> 0, slice_alpha_c0_offset_div2 |-> 0,
     slice_beta_offset_div2 |-> 0, slice_group_change_cycle |-> 0, size |-> 0,
     field_pic_flag |-> FALSE, bottom_field_flag |-> FALSE,
     direct_spatial_mv_pred_flag |-> FALSE, num_ref_idx_active_override_flag |-> FALSE,
     ref_pic_list_modification_l0_flag |-> FALSE,
     ref_pic_list_modification_l1_flag |-> FALSE,
     no_output_of_prior_pics_flag |-> FALSE, long_term_reference_flag |-> FALSE,
     sp_for_switch_flag |-> FALSE, adaptive_ref_pic_marking_mode_flag |-> FALSE]

\* Sps::chroma_array_type
chroma_array_type(sps) ==
    IF sps.separate_colour_plane_flag THEN 0 ELSE sps.chroma_format_idc

\* HashMap::get that answers with some entry of the map when the key is absent.
HashMap_get_any(map, key) ==
    IF DOMAIN map = {} THEN NoValue
    ELSE IF key \in DOMAIN map THEN Some(map[key])
    ELSE Some(map[CHOOSE k \in DOMAIN map : TRUE])

\* HashMap::get
HashMap_get(map, key) ==
    IF key \in DOMAIN map THEN Some(map[key]) ELSE NoValue

\* `let _ = read_se(&mut r);` k times
RECURSIVE SkipSe(_, _, _)
SkipSe(st, k, bld) ==
    IF k = 0 \/ st.panic THEN st
    ELSE Let(read_se(st.r, bld), LAMBDA x :
             SkipSe([st EXCEPT !.r = x.r, !.panic = x.panic], k - 1, bld))

\* The `loop` of ref_pic_list_modification
RECURSIVE RefPicListModification(_, _)
RefPicListModification(st, bld) ==
    Let(SetUe(st, "modification_of_pic_nums_idc", bld), LAMBDA s1 :
        LET idc == s1.sh.modification_of_pic_nums_idc
        IN  IF s1.panic \/ idc = 3 THEN s1
            ELSE Let(IF idc \in {0, 1} THEN SetUe(s1, "abs_diff_pic_num_minus1", bld)
                     ELSE IF idc = 2 THEN SetUe(s1, "long_term_pic_num", bld)
                     ELSE IF idc \in {4, 5}
                     THEN SetUe(s1, "abs_diff_view_idx_minus1", bld)
                     ELSE s1, LAMBDA s2 :
                     IF s2.panic \/ acc_error(s2.r) # "None" THEN s2
                     ELSE RefPicListModification(s2, bld)))

\* The loops of the prediction weight table: `for _ in 0..=num_ref_idx_active_minus1`.
\* Once the reader has failed every read of the body returns 0 and changes nothing,
\* so the remaining iterations leave the locals as they are.
RECURSIVE PredWeights(_, _, _, _)
PredWeights(st, count, chroma, bld) ==
    IF count = 0 \/ st.panic \/ acc_error(st.r) # "None" THEN st
    ELSE Let(read_flag(st.r), LAMBDA luma_weight_flag :
         Let(SkipSe([st EXCEPT !.r = luma_weight_flag.r],
                    IF luma_weight_flag.flag THEN 2 ELSE 0, bld), LAMBDA s1 :
             IF ~chroma THEN PredWeights(s1, count - 1, chroma, bld)
             ELSE Let(read_flag(s1.r), LAMBDA chroma_weight_flag :
                      PredWeights(SkipSe([s1 EXCEPT !.r = chroma_weight_flag.r],
                                         IF chroma_weight_flag.flag THEN 4 ELSE 0, bld),
                                  count - 1, chroma, bld))))

\* The `loop` of dec_ref_pic_marking
RECURSIVE DecRefPicMarking(_, _)
DecRefPicMarking(st, bld) ==
    Let(read_ue(st.r, bld), LAMBDA x :
        LET mmco == U32ToNat(x.val)
            s0 == [st EXCEPT !.r = x.r, !.panic = x.panic]
        IN  IF x.panic THEN s0
            ELSE Let(IF mmco \in {1, 3}
                     THEN SetUe(s0, "difference_of_pic_nums_minus1", bld)
                     ELSE IF mmco = 2 THEN SetUe(s0, "long_term_pic_num", bld)
                     ELSE s0, LAMBDA s1 :
                 IF mmco = 0 THEN s1
                 ELSE Let(IF mmco \in {3, 6} THEN SetUe(s1, "long_term_fram_idx", bld)
                          ELSE IF mmco = 4
                          THEN SetUe(s1, "max_long_term_frame_idx_plus1", bld)
                          ELSE s1, LAMBDA s2 :
                          IF s2.panic \/ acc_error(s2.r) # "None" THEN s2
                          ELSE DecRefPicMarking(s2, bld))))

\* The statements of parse_slice_header after both parameter sets are resolved, in
\* the order of the code.  c holds what they read besides the locals: the NAL unit
\* type, nal_ref_idc, the two parameter sets and the build.
SliceStatement(i, st, c) ==
    LET P == SliceType.P
        B == SliceType.B
        I == SliceType.I
        SP == SliceType.SP
        SI == SliceType.SI
        sps == c.sps
        pps == c.pps
        bld == c.bld
        slice_mod == st.sh.slice_type % 5
        bottom == pps.bottom_field_pic_order_in_frame_present_flag
                      /\ ~st.sh.field_pic_flag
        chroma == chroma_array_type(sps) # 0
    IN  CASE i = 1 ->
               IF sps.separate_colour_plane_flag THEN SetBits(st, "color_plane_id", 2)
               ELSE st
          [] i = 2 -> SetBits(st, "frame_num", sps.log2_max_frame_num_minus4 + 4)
          [] i = 3 ->
               IF ~sps.frame_mbs_only_flag THEN SetFlag(st, "field_pic_flag") ELSE st
          [] i = 4 ->
               IF ~sps.frame_mbs_only_flag /\ st.sh.field_pic_flag
               THEN SetFlag(st, "bottom_field_flag") ELSE st
          [] i = 5 ->
               IF c.ntype = NaluType.IDR THEN SetUe(st, "idr_pic_id", bld) ELSE st
          [] i = 6 ->
               IF sps.pic_order_cnt_type = 0
               THEN Let(SetBits(st, "pic_order_cnt_lsb",
                                sps.log2_max_pic_order_cnt_lsb_minus4 + 4), LAMBDA a :
                        IF bottom THEN SetSe(a, "delta_pic_order_cnt_bottom", bld)
                        ELSE a)
               ELSE IF sps.pic_order_cnt_type = 1
                       /\ ~sps.delta_pic_order_always_zero_flag
               THEN Let(SetDeltaPicOrderCnt(st, 1, bld), LAMBDA a :
                        IF bottom THEN SetDeltaPicOrderCnt(a, 2, bld) ELSE a)
               ELSE st
          [] i = 7 ->
               IF pps.redundant_pic_cnt_present_flag
               THEN SetUe(st, "redundant_pic_cnt", bld) ELSE st
          [] i = 8 ->
               IF slice_mod = B THEN SetFlag(st, "direct_spatial_mv_pred_flag") ELSE st
          [] i = 9 ->
               IF slice_mod \in {P, SP, B}
               THEN Let(SetFlag(st, "num_ref_idx_active_override_flag"), LAMBDA a :
                        IF a.sh.num_ref_idx_active_override_flag
                        THEN Let(SetUe(a, "num_ref_idx_l0_active_minus1", bld),
                                 LAMBDA l0 :
                                 IF slice_mod = B
                                 THEN SetUe(l0, "num_ref_idx_l1_active_minus1", bld)
                                 ELSE l0)
                        ELSE IF a.panic THEN a
                        ELSE [a EXCEPT !.sh.num_ref_idx_l0_active_minus1 =
                                           pps.num_ref_idx_i0_default_active_minus1,
                                       !.sh.num_ref_idx_l1_active_minus1 =
                                           pps.num_ref_idx_i1_default_active_minus1])
               ELSE st
          [] i = 10 ->
               IF slice_mod # I /\ slice_mod # SI
               THEN Let(SetFlag(st, "ref_pic_list_modification_l0_flag"), LAMBDA a :
                        IF a.sh.ref_pic_list_modification_l0_flag
                        THEN RefPicListModification(a, bld) ELSE a)
               ELSE st
          [] i = 11 ->
               IF slice_mod = B
               THEN Let(SetFlag(st, "ref_pic_list_modification_l1_flag"), LAMBDA a :
                        IF a.sh.ref_pic_list_modification_l1_flag
                        THEN RefPicListModification(a, bld) ELSE a)
               ELSE st
          [] i = 12 ->
               IF (pps.weighted_pred_flag /\ slice_mod \in {P, SP})
                      \/ (pps.weighted_bipred_idc = 1 /\ slice_mod = B)
               THEN Let(SetUe(st, "luma_log2_weight_denom", bld), LAMBDA a :
                    Let(IF chroma THEN SetUe(a, "chroma_log2_weight_denom", bld)
                        ELSE a, LAMBDA b :
                    Let(PredWeights(b, b.sh.num_ref_idx_l0_active_minus1 + 1,
                                    chroma, bld), LAMBDA l0 :
                        IF slice_mod = B
                        THEN PredWeights(l0, l0.sh.num_ref_idx_l1_active_minus1 + 1,
                                         chroma, bld)
                        ELSE l0)))
               ELSE st
          [] i = 13 ->
               IF c.nal_ref_idc # 0
               THEN IF c.ntype = NaluType.IDR
                    THEN SetFlag(SetFlag(st, "no_output_of_prior_pics_flag"),
                                 "long_term_reference_flag")
                    ELSE Let(SetFlag(st, "adaptive_ref_pic_marking_mode_flag"),
                             LAMBDA a :
                             IF a.sh.adaptive_ref_pic_marking_mode_flag /\ ~a.panic
                             THEN DecRefPicMarking(a, bld) ELSE a)
               ELSE st
          [] i = 14 ->
               IF pps.entropy_coding_mode_flag /\ slice_mod # I /\ slice_mod # SI
               THEN SetUe(st, "cabac_init_idc", bld) ELSE st
          [] i = 15 -> SetSe(st, "slice_qp_delta", bld)
          [] i = 16 ->
               IF slice_mod \in {SP, SI}
               THEN SetSe(IF slice_mod = SP THEN SetFlag(st, "sp_for_switch_flag")
                          ELSE st,
                          "slice_qs_delta", bld)
               ELSE st
          [] i = 17 ->
               IF pps.deblocking_filter_control_present_flag
               THEN Let(SetUe(st, "disable_deblocking_filter_idc", bld), LAMBDA a :
                        IF a.sh.disable_deblocking_filter_idc # 1
                        THEN SetSe(SetSe(a, "slice_alpha_c0_offset_div2", bld),
                                   "slice_beta_offset_div2", bld)
                        ELSE a)
               ELSE st
          [] i = 18 ->
               IF pps.num_slice_groups_minus1 > 0 /\ pps.slice_group_map_type >= 3
                      /\ pps.slice_group_map_type <= 5
               THEN LET pic_size_in_map_units == pps.pic_size_in_map_units_minus1 + 1
                        slice_group_change_rate == pps.slice_group_change_rate_minus1 + 1
                        v == pic_size_in_map_units \div slice_group_change_rate + 1
                    IN  SetBits(st, "slice_group_change_cycle", ceil_log2(v))
               ELSE st

\* Statements i..n, one after the other, up to one that panics.
RECURSIVE SliceStatements(_, _, _, _)
SliceStatements(i, n, st, c) ==
    IF i > n \/ st.panic THEN st
    ELSE SliceStatements(i + 1, n, SliceStatement(i, st, c), c)

\* parse_slice_header after both parameter sets are resolved.
SliceHeaderBody(st, ntype, nal_ref_idc, sps, pps, bld) ==
    SliceStatements(1, 18, st, [ntype |-> ntype, nal_ref_idc |-> nal_ref_idc,
                                sps |-> sps, pps |-> pps, bld |-> bld])

\* The result of a call: the Option returned, the locals at the return, and whether
\* the call panicked instead.
SliceReturn(result, st) ==
    [at |-> "return", out |-> result, panic |-> st.panic, sh |-> st.sh, r |-> st.r]

\* parse_slice_header from the look-up of the PPS on; s3 holds the locals after
\* pic_param_id was read.
SliceResolve(s3, ntype, nal_ref_idc, sps_map, pps_map, bld) ==
    LET pps == HashMap_get(pps_map, s3.sh.pic_param_id)
        s4 == [s3 EXCEPT !.sh.seq_param_id = pps.v.seq_parameter_set_id]
        sps == HashMap_get(sps_map, s4.sh.seq_param_id)
    IN  IF s3.panic THEN SliceReturn(NoValue, s3)
        ELSE IF ~pps.some THEN SliceReturn(NoValue, s3)
        ELSE IF ~sps.some THEN SliceReturn(NoValue, s4)
        ELSE Let(SliceHeaderBody(s4, ntype, nal_ref_idc, sps.v, pps.v, bld), LAMBDA s5 :
                 LET s6 == [s5 EXCEPT !.sh.size = nr_bytes_read(s5.r)]
                 IN  IF s5.panic THEN SliceReturn(NoValue, s5)
                     ELSE IF acc_error(s6.r) # "None" THEN SliceReturn(NoValue, s6)
                     ELSE SliceReturn(Some(s6.sh), s6))

\* parse_slice_header
parse_slice_header(nalu, sps_map, pps_map, bld) ==
    LET none == [r |-> NewReader("EbspReader", nalu), sh |-> SliceHeader_default,
                 panic |-> FALSE]
        ntype == NaluTypeOf(nalu[1])
    IN  IF nalu = <<>> THEN SliceReturn(NoValue, none)
        ELSE IF ntype # NaluType.NonIDR /\ ntype # NaluType.IDR
        THEN SliceReturn(NoValue, none)
        ELSE Let(read(none.r, 8), LAMBDA nal_hdr :
                 SliceResolve(
                     SetUe(SetUe(SetUe([none EXCEPT !.r = nal_hdr.r],
                                       "first_mb_in_slice", bld),
                                 "slice_type", bld),
                           "pic_param_id", bld),
                     ntype, (U32ToNat(nal_hdr.val) \div 32) % 4, sps_map, pps_map, bld))

\* The fields of an Sps that the slice parser reads; the values are those of the
\* SPS in test_slice_header_length.
TestSps ==
    [chroma_format_idc |-> 1, separate_colour_plane_flag |-> FALSE,
     log2_max_frame_num_minus4 |-> 0, pic_order_cnt_type |-> 0,
     log2_max_pic_order_cnt_lsb_minus4 |-> 2,
     delta_pic_order_always_zero_flag |-> FALSE, frame_mbs_only_flag |-> TRUE]

\* An interlaced SPS with separate colour planes and picture order count type 1.
FieldSps ==
    [TestSps EXCEPT !.separate_colour_plane_flag = TRUE, !.pic_order_cnt_type = 1,
                    !.frame_mbs_only_flag = FALSE]

\* The PPS of test_slice_header_length, a PPS with all optional parts switched on
\* (CABAC, weighted prediction, redundant pictures, slice groups of map type 3),
\* and a plain one with id 1.
TestPps == parse_pps_nalu(<<104, 235, 236, 178, 44>>, "release").out.v

PpsOf(f) ==
    parse_pps_nalu(<<PpsHeader>> \o PadBytes(PpsMandatoryBits(f) \o <<1>>), "release").out.v

FullPps ==
    PpsOf([id |-> 0, entropy |-> TRUE, groups |-> 3, l0 |-> 2, qp |-> 0,
           redundant |-> TRUE])

PlainPps ==
    PpsOf([id |-> 1, entropy |-> FALSE, groups |-> -1, l0 |-> 0, qp |-> 0,
           redundant |-> FALSE])

EmptyMap == [k \in {} |-> 0]

\* sps_map and pps_map: empty, or one parameter set under its id
SpsMaps == {EmptyMap, [k \in {0} |-> TestSps], [k \in {0} |-> FieldSps]}

PpsMaps ==
    {EmptyMap, [k \in {0} |-> TestPps], [k \in {0} |-> FullPps],
     [k \in {1} |-> PlainPps]}

\* NAL header bytes: NonIDR and IDR slices with nal_ref_idc 2 and 3, an SPS.
SliceHeaders == {65, 101, 103}

\* What follows pic_param_id in the units tried: the rest of the slice of
\* test_slice_type_parser, and bytes with an emulation prevention byte.
SliceFills ==
    {<<128, 64, 255, 222, 8, 228>>, <<38, 0, 0, 3, 2, 200>>}

\* Slice NAL units: first_mb_in_slice 0, a slice type, a PPS id, then the fill;
\* the unit of test_slice_header_length; an IDR slice whose idr_pic_id spans an
\* emulation prevention byte; and every truncation of these.
SliceNalus ==
    UNION {Prefixes(<<h>> \o PadBytes(UeBits(0) \o UeBits(t) \o UeBits(id)) \o fill) :
               h \in SliceHeaders, t \in {0, 1, 2, 3, 7}, id \in {0, 1},
               fill \in SliceFills}
    \cup Prefixes(<<65, 154, 102, 73, 225, 15, 38, 83, 2, 47, 255, 135, 0, 0, 3, 2,
                    200, 163, 45, 50>>)
    \cup Prefixes(<<101, 136, 64, 0, 0, 3, 128, 0, 0, 40>>)

ParseSliceHeader ==
    /\ pc = "slice"
    /\ res' = parse_slice_header(arg.nalu, arg.sps_map, arg.pps_map, build)
    /\ pc' = IF res'.panic THEN "panic" ELSE "slice_parsed"
    /\ UNCHANGED <<build, arg, annexbVars, avccVars, readerVars, tableVars>>

-----------------------------------------------------------------------------
(* Track selection and sample table parsing (subs.rs, video_track.rs) *)

\* Four-character codes of the boxes, handlers and sample entries.
Fourcc ==
    [moov |-> <<109, 111, 111, 118>>, trak |-> <<116, 114, 97, 107>>,
     mdia |-> <<109, 100, 105, 97>>, hdlr |-> <<104, 100, 108, 114>>,
     mdhd |-> <<109, 100, 104, 100>>, minf |-> <<109, 105, 110, 102>>,
     stbl |-> <<115, 116, 98, 108>>, stsd |-> <<115, 116, 115, 100>>,
     stsz |-> <<115, 116, 115, 122>>, stco |-> <<115, 116, 99, 111>>,
     co64 |-> <<99, 111, 54, 52>>, stsc |-> <<115, 116, 115, 99>>,
     stts |-> <<115, 116, 116, 115>>, mdat |-> Fourcc_mdat,
     vide |-> <<118, 105, 100, 101>>, text |-> <<116, 101, 120, 116>>,
     subt |-> <<115, 117, 98, 116>>, sbtl |-> <<115, 98, 116, 108>>,
     soun |-> <<115, 111, 117, 110>>,
     avc1 |-> <<97, 118, 99, 49>>, avc3 |-> <<97, 118, 99, 51>>,
     wvtt |-> <<119, 118, 116, 116>>, stpp |-> <<115, 116, 112, 112>>,
     tx3g |-> <<116, 120, 51, 103>>, mp4a |-> <<109, 112, 52, 97>>]

\* The outcome of a call: k = "some" with the value v, "none" (None or Err), "panic",
\* or "hang" for a loop that never ends.
Ok(v) == [k |-> "some", v |-> v]
Fail(k) == [k |-> k, v |-> <<>>]

\* find_box_range run to its end.  A loop body that leaves pos where the iteration
\* began (a box of size 0) repeats the same iteration for ever.
RECURSIVE FindBoxRangeFrom(_, _, _)
FindBoxRangeFrom(data, name, st) ==
    IF st.at = "return"
    THEN IF st.out.some THEN Ok(st.out.v) ELSE Fail("none")
    ELSE IF st.at = "while"
    THEN FindBoxRangeFrom(data, name, find_box_range_header(data, st))
    ELSE Let(find_box_range_body(data, name, st), LAMBDA n :
             IF n.at = "while" /\ n.pos = st.start THEN Fail("hang")
             ELSE FindBoxRangeFrom(data, name, n))

find_box_range(data, name) == FindBoxRangeFrom(data, name, WalkStart(data, name))

\* find_box: `Some(&data[start..end])`, a panic when start > end.
find_box(data, name) ==
    Let(find_box_range(data, name), LAMBDA rg :
        IF rg.k # "some" THEN rg
        ELSE IF rg.v.payload_start > rg.v.payload_end THEN Fail("panic")
        ELSE Ok(Slice(data, rg.v.payload_start, rg.v.payload_end)))

\* read_u64 as a u64 of the table component (exact below SizeCap).
read_u64(data, pos) ==
    IF pos + 8 > Len(data) THEN NoValue
    ELSE Some([v |-> FromU64BE(Slice(data, pos, pos + 8)), pos |-> pos + 8])

\* parse_mdhd_timescale
parse_mdhd_timescale(mdhd) ==
    IF Len(mdhd) < 12 THEN Fail("none")
    ELSE LET p == IF mdhd[1] = 1 THEN 4 + 8 + 8 ELSE 4 + 4 + 4
         IN  IF p + 4 > Len(mdhd) THEN Fail("none")
             ELSE Ok(FromU32BE(Slice(mdhd, p, p + 4)))

\* `for _ in 0..count { v.push(read_u32(data, &mut p)?) }`: the values, or None.
RECURSIVE ReadU32s(_, _, _, _)
ReadU32s(data, p, count, acc) ==
    IF count = 0 THEN Ok(acc)
    ELSE LET x == read_u32(data, p)
         IN  IF ~x.some THEN Fail("none")
             ELSE ReadU32s(data, x.v.pos, count - 1, Append(acc, x.v.v))

RECURSIVE ReadU64s(_, _, _, _)
ReadU64s(data, p, count, acc) ==
    IF count = 0 THEN Ok(acc)
    ELSE LET x == read_u64(data, p)
         IN  IF ~x.some THEN Fail("none")
             ELSE ReadU64s(data, x.v.pos, count - 1, Append(acc, x.v.v))

\* parse_trak, the stsz part: sizes
ParseStsz(stsz) ==
    LET sample_uniform == read_u32(stsz, 4)
        sample_count == read_u32(stsz, 8)
    IN  IF ~sample_uniform.some \/ ~sample_count.some THEN Fail("none")
        ELSE IF sample_uniform.v.v = 0
        THEN ReadU32s(stsz, 12, sample_count.v.v, <<>>)
        ELSE Ok([i \in 1..sample_count.v.v |-> sample_uniform.v.v])

\* parse_trak, the stco/co64 part: chunk_offsets
ParseStco(stco, use_co64) ==
    LET entry_count == read_u32(stco, 4)
    IN  IF ~entry_count.some THEN Fail("none")
        ELSE Let(IF use_co64 THEN ReadU64s(stco, 8, entry_count.v.v, <<>>)
                 ELSE ReadU32s(stco, 8, entry_count.v.v, <<>>), LAMBDA offs :
                 IF offs.k # "some" THEN offs
                 ELSE Ok([i \in 1..Len(offs.v) |-> U64(offs.v[i])]))

\* Entries of `width` u32 fields each, from a flat list of fields.
Grouped(fields, width) ==
    [i \in 1..(Len(fields) \div width) |->
        [j \in 1..width |-> fields[(i - 1) * width + j]]]

\* parse_trak, the stsc part: stsc_entries
ParseStsc(stsc) ==
    LET entry_count == read_u32(stsc, 4)
    IN  IF ~entry_count.some THEN Fail("none")
        ELSE Let(ReadU32s(stsc, 8, 3 * entry_count.v.v, <<>>), LAMBDA fields :
                 IF fields.k # "some" THEN fields
                 ELSE Ok([i \in 1..entry_count.v.v |->
                             LET e == Grouped(fields.v, 3)[i]
                             IN  [first_chunk |-> e[1], samples_per_chunk |-> e[2],
                                  desc_index |-> e[3]]]))

\* parse_stts_entries: (count, delta) pairs
parse_stts_entries(stts) ==
    LET entry_count == read_u32(stts, 4)
    IN  IF Len(stts) < 8 THEN Fail("none")
        ELSE IF ~entry_count.some THEN Fail("none")
        ELSE Let(ReadU32s(stts, 8, 2 * entry_count.v.v, <<>>), LAMBDA fields :
                 IF fields.k # "some" THEN fields
                 ELSE Ok(Grouped(fields.v, 2)))

\* `for (count, delta) in stts_entries { for _ in 0..count { durations.push(delta) } }`
RECURSIVE Durations(_)
Durations(entries) ==
    IF entries = <<>> THEN <<>>
    ELSE [i \in 1..Head(entries)[1] |-> Head(entries)[2]] \o Durations(Tail(entries))

\* `stsd.windows(4).any(|w| w == code)`
Contains(bytes, code) ==
    \E i \in 1..(Len(bytes) - 3) : SubSeq(bytes, i, i + 3) = code

\* The handlers and sample entry codes each selector accepts, and how long it wants
\* the hdlr payload: subs.rs parse_trak per SubtitleVariant, video_track.rs
\* parse_trak for "Video".
HandlerSet(variant) ==
    IF variant = "Wvtt" THEN {Fourcc.text, Fourcc.subt}
    ELSE IF variant = "Stpp" THEN {Fourcc.subt}
    ELSE IF variant = "Tx3g" THEN {Fourcc.sbtl, Fourcc.text, Fourcc.subt}
    ELSE {Fourcc.vide}

CodecSet(variant) ==
    IF variant = "Wvtt" THEN {Fourcc.wvtt}
    ELSE IF variant = "Stpp" THEN {Fourcc.stpp}
    ELSE IF variant = "Tx3g" THEN {Fourcc.tx3g}
    ELSE {Fourcc.avc1, Fourcc.avc3}

MinHdlrLen(variant) == IF variant = "Video" THEN 12 ELSE 16

\* The locals of parse_trak before its first statement.  k is "some" while the
\* call runs on, and the way it ended after the statement that ended it.
TrakLocals ==
    [k |-> "some", mdia |-> <<>>, hdlr |-> <<>>, handler |-> <<>>, mdhd |-> <<>>,
     timescale |-> 0, minf |-> <<>>, stbl |-> <<>>, stsd |-> <<>>, stsz |-> <<>>,
     stco |-> <<>>, use_co64 |-> FALSE, stsc |-> <<>>, stts |-> <<>>,
     sizes |-> <<>>, chunk_offsets |-> <<>>, stsc_entries |-> <<>>,
     stts_entries |-> <<>>, durations |-> <<>>,
     mdat |-> [payload_start |-> 0, payload_end |-> 0]]

\* `let field = outcome?;`
Try(st, field, outcome) ==
    IF outcome.k = "some" THEN [st EXCEPT ![field] = outcome.v]
    ELSE [st EXCEPT !.k = outcome.k]

\* `if !cond { return None; }`
Require(st, cond) == IF cond THEN st ELSE [st EXCEPT !.k = "none"]

\* The calls and tests of parse_trak in the order the function makes them.  c holds
\* the file, the trak payload and the selector.
TrakStatement(i, st, c) ==
    CASE i = 1 -> Try(st, "mdia", find_box(c.data, Fourcc.mdia))
      [] i = 2 -> Try(st, "hdlr", find_box(st.mdia, Fourcc.hdlr))
      [] i = 3 -> Require(st, Len(st.hdlr) >= MinHdlrLen(c.variant))
      [] i = 4 -> Require([st EXCEPT !.handler = Slice(st.hdlr, 8, 12)],
                          Slice(st.hdlr, 8, 12) \in HandlerSet(c.variant))
      [] i = 5 -> Try(st, "mdhd", find_box(st.mdia, Fourcc.mdhd))
      [] i = 6 -> Try(st, "timescale", parse_mdhd_timescale(st.mdhd))
      [] i = 7 -> Try(st, "minf", find_box(st.mdia, Fourcc.minf))
      [] i = 8 -> Try(st, "stbl", find_box(st.minf, Fourcc.stbl))
      [] i = 9 -> Try(st, "stsd", find_box(st.stbl, Fourcc.stsd))
      [] i = 10 -> Require(st, \E code \in CodecSet(c.variant) : Contains(st.stsd, code))
      [] i = 11 -> Try(st, "stsz", find_box(st.stbl, Fourcc.stsz))
      [] i = 12 -> Let(find_box(st.stbl, Fourcc.stco), LAMBDA stco32 :
                       IF stco32.k = "none"
                       THEN Try([st EXCEPT !.use_co64 = TRUE], "stco",
                                find_box(st.stbl, Fourcc.co64))
                       ELSE Try(st, "stco", stco32))
      [] i = 13 -> Try(st, "stsc", find_box(st.stbl, Fourcc.stsc))
      [] i = 14 -> Try(st, "stts", find_box(st.stbl, Fourcc.stts))
      [] i = 15 -> Try(st, "sizes", ParseStsz(st.stsz))
      [] i = 16 -> Try(st, "chunk_offsets", ParseStco(st.stco, st.use_co64))
      [] i = 17 -> Try(st, "stsc_entries", ParseStsc(st.stsc))
      [] i = 18 -> Let(Try(st, "stts_entries", parse_stts_entries(st.stts)), LAMBDA t :
                       IF t.k # "some" THEN t
                       ELSE [t EXCEPT !.durations = Durations(t.stts_entries)])
      [] i = 19 -> Require(st, Len(st.durations) = Len(st.sizes))
      [] i = 20 -> Try(st, "mdat", find_box_range(c.root, Fourcc.mdat))
      [] i = 21 -> IF st.mdat.payload_start > st.mdat.payload_end
                   THEN [st EXCEPT !.k = "panic"] ELSE st

\* Statements i..n, one after the other, up to the one that ends the call.
RECURSIVE TrakStatements(_, _, _, _)
TrakStatements(i, n, st, c) ==
    IF i > n \/ st.k # "some" THEN st
    ELSE TrakStatements(i + 1, n, TrakStatement(i, st, c), c)

\* parse_trak.  built records how many elements the sizes and durations vectors
\* held when the call returned.
parse_trak(root, data, variant, bld) ==
    Let(TrakStatements(1, 21, TrakLocals,
                       [root |-> root, data |-> data, variant |-> variant]),
        LAMBDA st :
        LET built == [sizes |-> Len(st.sizes), durations |-> Len(st.durations)]
            tables == [base_offset |-> st.mdat.payload_start,
                       mdat_len |-> st.mdat.payload_end - st.mdat.payload_start,
                       chunk_offsets |-> st.chunk_offsets,
                       stsc_entries |-> st.stsc_entries,
                       sizes |-> st.sizes,
                       durs |-> st.durations]
        IN  IF st.k # "some" THEN [k |-> st.k, v |-> <<>>, built |-> built]
            ELSE Let(IF variant = "Video" THEN collect_samples(tables, bld)
                     ELSE collect_samples_general(tables, bld), LAMBDA collected :
                     IF collected.panic THEN [k |-> "panic", v |-> <<>>, built |-> built]
                     ELSE [k |-> "some", built |-> built,
                           v |-> [variant |-> variant, timescale |-> st.timescale,
                                  samples |-> collected.samples]]))

\* The `while pos + 8 <= moov.len()` loop of find_track_inner and
\* extract_avc_track.  A result carries `start`, the offset in moov of the trak it
\* was parsed from, and the vectors built by every parse_trak call so far.
RECURSIVE TrakLoop(_, _, _, _, _, _)
TrakLoop(root, moov, variant, pos, bld, built) ==
    LET start == pos
        h == parse_box_header(moov, pos)
        none == [k |-> "none", v |-> <<>>, built |-> built]
    IN  IF pos + 8 > Len(moov) THEN none
        ELSE IF ~h.some THEN none
        ELSE IF h.v.size > Len(moov) - start THEN none
        ELSE IF h.v.pos > start + h.v.size
        THEN [k |-> "panic", v |-> <<>>, built |-> built]
        ELSE IF h.v.name # Fourcc.trak
        THEN TrakLoop(root, moov, variant, start + h.v.size, bld, built)
        ELSE Let(parse_trak(root, Slice(moov, h.v.pos, start + h.v.size), variant, bld),
                 LAMBDA t :
                 LET now == [sizes |-> IF t.built.sizes > built.sizes
                                       THEN t.built.sizes ELSE built.sizes,
                             durations |-> IF t.built.durations > built.durations
                                           THEN t.built.durations
                                           ELSE built.durations]
                 IN  IF t.k = "some"
                     THEN [k |-> "some", v |-> [start |-> start, track |-> t.v],
                           built |-> now]
                     ELSE IF t.k \in {"panic", "hang"}
                     THEN [k |-> t.k, v |-> <<>>, built |-> now]
                     ELSE TrakLoop(root, moov, variant, start + h.v.size, bld, now))

\* find_track_inner (variant Wvtt, Stpp, Tx3g) and extract_avc_track ("Video")
find_track_inner(data, variant, bld) ==
    Let(find_box(data, Fourcc.moov), LAMBDA moov :
        IF moov.k # "some"
        THEN [k |-> moov.k, v |-> <<>>, built |-> [sizes |-> 0, durations |-> 0]]
        ELSE TrakLoop(data, moov.v, variant, 0, bld, [sizes |-> 0, durations |-> 0]))

extract_avc_track(data, bld) == find_track_inner(data, "Video", bld)

\* A box with an 8-byte header.
MakeBox(name, payload) == U32BE(8 + Len(payload)) \o name \o payload

\* A declared count far above the number of bytes of any file of the model.
BigCount == 1000

\* The sample tables of a trak: whole; without stts; with a table that declares
\* more entries than it holds (stsz, stco, stsc, stts); with a uniform sample size
\* and BigCount samples; with BigCount durations for one sample.
TableKinds ==
    {"ok", "no_stts", "stsz_short", "stco_short", "stsc_short", "stts_short",
     "uniform_big", "stts_big"}

StblBytes(codec, tables) ==
    LET stsd == MakeBox(Fourcc.stsd, Zeros(8) \o U32BE(16) \o codec \o Zeros(8))
        stsz == MakeBox(Fourcc.stsz,
                    Zeros(4) \o
                    (IF tables = "uniform_big" THEN U32BE(1) \o U32BE(BigCount)
                     ELSE IF tables = "stsz_short" THEN U32BE(0) \o U32BE(3) \o U32BE(2)
                     ELSE U32BE(0) \o U32BE(1) \o U32BE(2)))
        stco == MakeBox(Fourcc.stco,
                    Zeros(4) \o U32BE(IF tables = "stco_short" THEN 2 ELSE 1)
                    \o U32BE(8))
        stsc == MakeBox(Fourcc.stsc,
                    Zeros(4) \o U32BE(IF tables = "stsc_short" THEN 2 ELSE 1)
                    \o U32BE(1) \o U32BE(1) \o U32BE(1))
        stts == MakeBox(Fourcc.stts,
                    Zeros(4) \o U32BE(IF tables = "stts_short" THEN 2 ELSE 1)
                    \o U32BE(IF tables \in {"uniform_big", "stts_big"} THEN BigCount
                             ELSE IF tables = "stsz_short" THEN 3 ELSE 1)
                    \o U32BE(5))
    IN  MakeBox(Fourcc.stbl,
            stsd \o stsz \o stco \o stsc \o (IF tables = "no_stts" THEN <<>> ELSE stts))

\* A trak box for a handler, a sample entry code and a kind of tables.
TrakBytes(kind) ==
    MakeBox(Fourcc.trak,
        MakeBox(Fourcc.mdia,
            MakeBox(Fourcc.hdlr, Zeros(8) \o kind.handler \o Zeros(12))
            \o MakeBox(Fourcc.mdhd, Zeros(12) \o U32BE(90000) \o Zeros(8))
            \o MakeBox(Fourcc.minf, StblBytes(kind.codec, kind.tables))))

\* Handler and sample entry pairs: every pair a selector accepts, and others.
HandlerCodecs ==
    {<<Fourcc.vide, Fourcc.avc1>>, <<Fourcc.vide, Fourcc.avc3>>,
     <<Fourcc.vide, Fourcc.wvtt>>, <<Fourcc.text, Fourcc.wvtt>>,
     <<Fourcc.subt, Fourcc.wvtt>>, <<Fourcc.subt, Fourcc.stpp>>,
     <<Fourcc.text, Fourcc.stpp>>, <<Fourcc.sbtl, Fourcc.tx3g>>,
     <<Fourcc.subt, Fourcc.tx3g>>, <<Fourcc.soun, Fourcc.mp4a>>}

WholeTraks ==
    {[handler |-> hc[1], codec |-> hc[2], tables |-> "ok"] : hc \in HandlerCodecs}

BrokenTraks ==
    {[handler |-> hc[1], codec |-> hc[2], tables |-> t] :
        hc \in {<<Fourcc.vide, Fourcc.avc1>>, <<Fourcc.subt, Fourcc.wvtt>>,
                <<Fourcc.subt, Fourcc.stpp>>, <<Fourcc.sbtl, Fourcc.tx3g>>},
        t \in TableKinds \ {"ok"}}

\* The traks of a moov: one trak, or any trak followed by a whole one.
TrakLists ==
    {<<a>> : a \in WholeTraks \cup BrokenTraks}
    \cup {<<a, b>> : a \in WholeTraks \cup BrokenTraks, b \in WholeTraks}

RECURSIVE TraksBytes(_)
TraksBytes(traks) ==
    IF traks = <<>> THEN <<>> ELSE TrakBytes(Head(traks)) \o TraksBytes(Tail(traks))

\* A file: an mdat of four bytes, each holding its offset in the file as the table
\* component has it, then the moov.
FileBytes(traks) ==
    MakeBox(Fourcc.mdat, [i \in 1..4 |-> FileByte(MdatPayloadStart + i - 1)])
    \o MakeBox(Fourcc.moov, TraksBytes(traks))

FindTrack ==
    /\ pc = "track"
    /\ arg.fn = "find_track_inner"
    /\ res' = find_track_inner(arg.data, arg.variant, build)
    /\ pc' = IF res'.k \in {"panic", "hang"} THEN res'.k ELSE "track_done"
    /\ UNCHANGED <<build, arg, annexbVars, avccVars, readerVars, tableVars>>

ExtractAvcTrack ==
    /\ pc = "track"
    /\ arg.fn = "extract_avc_track"
    /\ res' = extract_avc_track(arg.data, build)
    /\ pc' = IF res'.k \in {"panic", "hang"} THEN res'.k ELSE "track_done"
    /\ UNCHANGED <<build, arg, annexbVars, avccVars, readerVars, tableVars>>

-----------------------------------------------------------------------------
(* Calls of avc/nalus.rs get_nalus_from_sample and of the two un-escaping     *)
(* routines on the same raw bytes.                                            *)

\* Bytes of length-prefixed samples: lengths 0..2 and a length too large.
SampleBytes == {0, 1, 2}
NaluSamples == SeqsUpTo(SampleBytes, MaxSampleLen)

GetNalusFromSample ==
    /\ pc = "nalus"
    /\ res' = get_nalus_from_sample(arg.sample)
    /\ pc' = "nalus_done"
    /\ UNCHANGED <<build, arg, annexbVars, avccVars, readerVars, tableVars>>

\* Raw payloads: zero, the escape byte and one other byte.
EscBytes == {0, 3, 1}
EscInputs == SeqsUpTo(EscBytes, MaxEscLen)

\* What the two routines made of arg.data so far.
NoUnescaped == [rbsp |-> NoValue, read |-> <<>>]

RemoveEmulationPreventionBytes ==
    /\ pc = "unescape"
    /\ res' = [res EXCEPT !.rbsp = Some(remove_emulation_prevention_bytes(arg.data))]
    /\ pc' = "refill"
    /\ UNCHANGED <<build, arg, annexbVars, avccVars, readerVars, tableVars>>

\* One read(8) on an EbspReader over arg.data: a byte of the payload as the
\* refill loop delivers it, until the reader fails at the end of the data.
EbspReadByte ==
    /\ pc = "refill"
    /\ LET x == EbspReader_read(r, 8)
       IN  /\ r' = x.r
           /\ res' = IF x.r.err = "None"
                     THEN [res EXCEPT !.read = Append(res.read, U32ToNat(x.val))]
                     ELSE res
           /\ pc' = IF x.r.err = "None" THEN "refill" ELSE "unescaped"
    /\ UNCHANGED <<build, arg, annexbVars, avccVars, ret, taken, tableVars>>

-----------------------------------------------------------------------------
(* The two ways of un-escaping side by side: an EbspReader over the raw bytes *)
(* (avc/slice.rs) and a BitReader (lib.rs) over the bytes                     *)
(* remove_emulation_prevention_bytes made of them (avc/pps.rs, avc/sps.rs).   *)

RawInputs == SeqsUpTo(EscBytes, MaxRaw)

\* Widths of the reads made of both readers.
BothWidths == {1, 8, 13, 32}

\* The eager reader and what the last read returned from each reader.
BothStart(data) ==
    [br |-> NewReader("BitReader", remove_emulation_prevention_bytes(data)),
     lazy |-> Zeros(32), eager |-> Zeros(32)]

\* r.read(n) on the EbspReader and on the BitReader.
ReadBoth(n) ==
    /\ pc = "both"
    /\ LET x == EbspReader_read(r, n)
           y == BitReader_read(res.br, n)
       IN  /\ r' = x.r
           /\ res' = [br |-> y.r, lazy |-> x.val, eager |-> y.val]
    /\ UNCHANGED <<pc, build, arg, annexbVars, avccVars, ret, taken, tableVars>>

-----------------------------------------------------------------------------
(* SPS parser (avc/sps.rs) *)

\* A value below 2^31 as a u32.
Nat32(v) == <<0>> \o NatBits(v, 31)

\* u32 `a * k` for the factors the parser multiplies by (1, 2, 4 and 16): the
\* wrapped product and whether it overflowed.
Mul32(a, k) ==
    LET sh == CASE k = 1 -> 0 [] k = 2 -> 1 [] k = 4 -> 2 [] k = 16 -> 4
    IN  [sum |-> SubSeq(a, sh + 1, 32) \o Zeros(sh),
         overflow |-> SubSeq(a, 1, sh) # Zeros(sh)]

\* u32 `a - b`: the wrapped difference and whether it went below zero.
Sub32(a, b) ==
    LET lo == BitsToNat(SubSeq(a, 17, 32)) - BitsToNat(SubSeq(b, 17, 32))
        hi == BitsToNat(SubSeq(a, 1, 16)) - BitsToNat(SubSeq(b, 1, 16))
                  - (IF lo < 0 THEN 1 ELSE 0)
    IN  [sum |-> NatBits((hi + 65536) % 65536, 16) \o NatBits((lo + 65536) % 65536, 16),
         overflow |-> hi < 0]

\* The result x of an operation that follows the operation with result y.
After(x, y) == [sum |-> x.sum, overflow |-> x.overflow \/ y.overflow]

\* `field = <u32 expression>`: a panic when it overflows with overflow checks on,
\* the wrapped value without.
SetU32(st, field, x, bld) ==
    IF st.panic THEN st
    ELSE IF x.overflow /\ bld = "debug" THEN [st EXCEPT !.panic = TRUE]
    ELSE [st EXCEPT !.sh[field] = x.sum]

\* `field = r.read(n)` kept as the 32 bits read.
SetRaw(st, field, n) ==
    IF st.panic THEN st
    ELSE Let(read(st.r, n), LAMBDA x : [st EXCEPT !.r = x.r, !.sh[field] = x.val])

\* `field = value`
SetTo(st, field, value) == IF st.panic THEN st ELSE [st EXCEPT !.sh[field] = value]

EXTENDED_SAR == 255

\* get_sar_from_idc
get_sar_from_idc(index) ==
    IF index = 0 \/ index > 16 THEN NoValue
    ELSE Some(<<<<1, 1>>, <<12, 11>>, <<10, 11>>, <<16, 11>>,
                <<40, 33>>, <<24, 11>>, <<20, 11>>, <<32, 11>>,
                <<80, 33>>, <<18, 11>>, <<15, 11>>, <<64, 33>>,
                <<160, 99>>, <<4, 3>>, <<3, 2>>, <<2, 1>>>>[index])

\* The fields of HrdParameters before the first read.
HrdLocals ==
    [cpb_count_minus1 |-> 0, bit_rate_scale |-> 0, cpb_size_scale |-> 0,
     cpb_entries |-> <<>>, initial_cpb_removal_delay_length_minus1 |-> 0,
     cpb_removal_delay_length_minus1 |-> 0, dpb_output_delay_length_minus1 |-> 0,
     time_offset_length |-> 0]

\* One CpbEntry: two read_ue and a flag.
CpbEntryLocals ==
    [bit_rate_value_minus1 |-> 0, cpb_size_value_minus1 |-> 0, cbr_flag |-> FALSE]

\* `for _ in 0..=cpb_count_minus1`, with k entries still to read.
RECURSIVE CpbEntriesFrom(_, _, _)
CpbEntriesFrom(st, k, bld) ==
    IF k = 0 \/ st.panic THEN st
    ELSE Let(SetFlag(SetUe(SetUe([r |-> st.r, panic |-> FALSE, sh |-> CpbEntryLocals],
                                 "bit_rate_value_minus1", bld),
                           "cpb_size_value_minus1", bld), "cbr_flag"), LAMBDA e :
             CpbEntriesFrom([st EXCEPT !.r = e.r, !.panic = e.panic,
                                       !.sh.cpb_entries = Append(@, e.sh)],
                            k - 1, bld))

\* parse_hrd_parameters
parse_hrd_parameters(rdr, bld) ==
    Let(SetBits(SetBits(SetUe([r |-> rdr, panic |-> FALSE, sh |-> HrdLocals],
                              "cpb_count_minus1", bld),
                        "bit_rate_scale", 4), "cpb_size_scale", 4), LAMBDA h :
        IF h.panic THEN h
        ELSE SetBits(SetBits(SetBits(SetBits(
                 CpbEntriesFrom(h, h.sh.cpb_count_minus1 + 1, bld),
                 "initial_cpb_removal_delay_length_minus1", 5),
                 "cpb_removal_delay_length_minus1", 5),
                 "dpb_output_delay_length_minus1", 5),
                 "time_offset_length", 5))

\* VuiParameters::default(), with the local aspect_ratio_info_present_flag.
VuiParameters_default ==
    [aspect_ratio_info_present_flag |-> FALSE,
     sample_aspect_ratio_width |-> 0, sample_aspect_ratio_height |-> 0,
     overscan_info_present_flag |-> FALSE, overscan_appropriate_flag |-> FALSE,
     video_signal_type_present_flag |-> FALSE, video_format |-> 0,
     video_full_range_flag |-> FALSE, colour_description_flag |-> FALSE,
     colour_primaries |-> 0, transfer_characteristics |-> 0,
     matrix_coefficients |-> 0, chroma_loc_info_present_flag |-> FALSE,
     chroma_sample_loc_type_top_field |-> 0,
     chroma_sample_loc_type_bottom_field |-> 0,
     timing_info_present_flag |-> FALSE, num_units_in_tick |-> Zeros(32),
     time_scale |-> Zeros(32), fixed_frame_rate_flag |-> FALSE,
     nal_hrd_parameters_present_flag |-> FALSE, nal_hrd_parameters |-> NoValue,
     vcl_hrd_parameters_present_flag |-> FALSE, vcl_hrd_parameters |-> NoValue,
     low_delay_hrd_flag |-> FALSE, pic_struct_present_flag |-> FALSE,
     bitstream_restriction_flag |-> FALSE,
     motion_vectors_over_pic_boundaries_flag |-> FALSE,
     max_bytes_per_pic_denom |-> 0, max_bits_per_mb_denom |-> 0,
     log2_max_mv_length_horizontal |-> 0, log2_max_mv_length_vertical |-> 0,
     max_num_reorder_frames |-> 0, max_dec_frame_buffering |-> 0]

\* `if aspect_ratio_info_present_flag { ... }`
VuiAspectRatio(st) ==
    IF st.panic \/ ~st.sh.aspect_ratio_info_present_flag THEN st
    ELSE Let(read(st.r, 8), LAMBDA idc :
             IF U32ToNat(idc.val) = EXTENDED_SAR
             THEN SetBits(SetBits([st EXCEPT !.r = idc.r],
                                  "sample_aspect_ratio_width", 16),
                          "sample_aspect_ratio_height", 16)
             ELSE Let(get_sar_from_idc(U32ToNat(idc.val)), LAMBDA sar :
                      IF sar.some
                      THEN [st EXCEPT !.r = idc.r,
                                      !.sh.sample_aspect_ratio_width = sar.v[1],
                                      !.sh.sample_aspect_ratio_height = sar.v[2]]
                      ELSE [st EXCEPT !.r = idc.r]))

\* `vui.<field> = Some(parse_hrd_parameters(r))`
SetHrd(st, field, bld) ==
    IF st.panic THEN st
    ELSE Let(parse_hrd_parameters(st.r, bld), LAMBDA h :
             IF h.panic THEN [st EXCEPT !.r = h.r, !.panic = TRUE]
             ELSE [st EXCEPT !.r = h.r, !.sh[field] = Some(h.sh)])

\* The statements of parse_vui in the order of the code: 1 and 2 up to the return
\* for !beyond_aspect_ratio, 3 to 18 after it.
VuiStatement(i, st, bld) ==
    CASE i = 1 -> SetFlag(st, "aspect_ratio_info_present_flag")
      [] i = 2 -> VuiAspectRatio(st)
      [] i = 3 -> SetFlag(st, "overscan_info_present_flag")
      [] i = 4 -> IF st.sh.overscan_info_present_flag
                  THEN SetFlag(st, "overscan_appropriate_flag") ELSE st
      [] i = 5 -> SetFlag(st, "video_signal_type_present_flag")
      [] i = 6 -> IF st.sh.video_signal_type_present_flag
                  THEN SetFlag(SetFlag(SetBits(st, "video_format", 3),
                                       "video_full_range_flag"),
                               "colour_description_flag")
                  ELSE st
      [] i = 7 -> IF st.sh.colour_description_flag
                  THEN SetBits(SetBits(SetBits(st, "colour_primaries", 8),
                                       "transfer_characteristics", 8),
                               "matrix_coefficients", 8)
                  ELSE st
      [] i = 8 -> SetFlag(st, "chroma_loc_info_present_flag")
      [] i = 9 -> IF st.sh.chroma_loc_info_present_flag
                  THEN SetUe(SetUe(st, "chroma_sample_loc_type_top_field", bld),
                             "chroma_sample_loc_type_bottom_field", bld)
                  ELSE st
      [] i = 10 -> SetFlag(st, "timing_info_present_flag")
      [] i = 11 -> IF st.sh.timing_info_present_flag
                   THEN SetFlag(SetRaw(SetRaw(st, "num_units_in_tick", 32),
                                       "time_scale", 32), "fixed_frame_rate_flag")
                   ELSE st
      [] i = 12 -> SetFlag(st, "nal_hrd_parameters_present_flag")
      [] i = 13 -> IF st.sh.nal_hrd_parameters_present_flag
                   THEN SetHrd(st, "nal_hrd_parameters", bld) ELSE st
      [] i = 14 -> SetFlag(st, "vcl_hrd_parameters_present_flag")
      [] i = 15 -> IF st.sh.vcl_hrd_parameters_present_flag
                   THEN SetHrd(st, "vcl_hrd_parameters", bld) ELSE st
      [] i = 16 -> IF st.sh.nal_hrd_parameters_present_flag
                      \/ st.sh.vcl_hrd_parameters_present_flag
                   THEN SetFlag(st, "low_delay_hrd_flag") ELSE st
      [] i = 17 -> SetFlag(SetFlag(st, "pic_struct_present_flag"),
                           "bitstream_restriction_flag")
      [] i = 18 -> IF st.sh.bitstream_restriction_flag
                   THEN SetUe(SetUe(SetUe(SetUe(SetUe(SetUe(
                            SetFlag(st, "motion_vectors_over_pic_boundaries_flag"),
                            "max_bytes_per_pic_denom", bld),
                            "max_bits_per_mb_denom", bld),
                            "log2_max_mv_length_horizontal", bld),
                            "log2_max_mv_length_vertical", bld),
                            "max_num_reorder_frames", bld),
                            "max_dec_frame_buffering", bld)
                   ELSE st

RECURSIVE VuiStatements(_, _, _, _)
VuiStatements(i, n, st, bld) ==
    IF i > n \/ st.panic THEN st
    ELSE VuiStatements(i + 1, n, VuiStatement(i, st, bld), bld)

\* parse_vui
parse_vui(rdr, beyond_aspect_ratio, bld) ==
    VuiStatements(1, IF beyond_aspect_ratio THEN 18 ELSE 2,
                  [r |-> rdr, panic |-> FALSE, sh |-> VuiParameters_default], bld)

\* The profiles whose SPS holds the chroma format and the scaling matrix.
HighProfiles == {100, 110, 122, 244, 44, 83, 86, 118, 128, 138, 139, 134, 135}

\* The fields of the Sps and the locals of parse_sps_nalu_with_vui (crop_unit_x,
\* crop_unit_y, frame_mbs_only) before the first read.
SpsLocals ==
    [profile |-> 0, profile_compatibility |-> 0, level |-> 0,
     parameter_set_id |-> 0, chroma_format_idc |-> 1,
     separate_colour_plane_flag |-> FALSE, bit_depth_luma_minus8 |-> 0,
     bit_depth_chroma_minus8 |-> 0, qpprime_y_zero_transform_bypass_flag |-> FALSE,
     seq_scaling_matrix_present_flag |-> FALSE, seq_scaling_lists |-> <<>>,
     log2_max_frame_num_minus4 |-> 0, pic_order_cnt_type |-> 0,
     log2_max_pic_order_cnt_lsb_minus4 |-> 0,
     delta_pic_order_always_zero_flag |-> FALSE, offset_for_non_ref_pic |-> 0,
     offset_for_top_to_bottom_field |-> 0,
     ref_frames_in_pic_order_cnt_cycle |-> <<>>, num_ref_frames |-> 0,
     gaps_in_frame_num_value_allowed_flag |-> FALSE,
     pic_width_in_mbs_minus1 |-> 0, pic_height_in_map_units_minus1 |-> 0,
     frame_mbs_only_flag |-> FALSE, mb_adaptive_frame_field_flag |-> FALSE,
     direct_8x8_inference_flag |-> FALSE, frame_cropping_flag |-> FALSE,
     frame_crop_left_offset |-> 0, frame_crop_right_offset |-> 0,
     frame_crop_top_offset |-> 0, frame_crop_bottom_offset |-> 0,
     crop_unit_x |-> 0, crop_unit_y |-> 0, frame_mbs_only |-> 0,
     width |-> Zeros(32), height |-> Zeros(32),
     vui_parameters_present_flag |-> FALSE,
     nr_bytes_before_vui |-> 0, nr_bytes_read |-> 0, vui |-> NoValue]

\* `if seq_scaling_matrix_present_flag { ... }`
SpsScalingMatrix(st, bld) ==
    IF st.panic \/ ~st.sh.seq_scaling_matrix_present_flag THEN st
    ELSE Let(ScalingListsFrom(st.r, 0, IF st.sh.chroma_format_idc # 3 THEN 8 ELSE 12,
                              <<>>, bld), LAMBDA l :
             [st EXCEPT !.r = l.r, !.panic = l.panic, !.sh.seq_scaling_lists = l.lists])

\* The arm of `match profile` for the high profiles.
SpsHighProfile(st, bld) ==
    IF st.panic \/ st.sh.profile \notin HighProfiles THEN st
    ELSE Let(SetUe(st, "chroma_format_idc", bld), LAMBDA c :
             SpsScalingMatrix(
                 SetFlag(SetFlag(SetUe(SetUe(
                     IF ~c.panic /\ c.sh.chroma_format_idc = 3
                     THEN SetFlag(c, "separate_colour_plane_flag") ELSE c,
                     "bit_depth_luma_minus8", bld),
                     "bit_depth_chroma_minus8", bld),
                     "qpprime_y_zero_transform_bypass_flag"),
                     "seq_scaling_matrix_present_flag"), bld))

\* `if pic_order_cnt_type == 0 { ... } else if pic_order_cnt_type == 1 { ... }`
SpsPicOrderCnt(st, bld) ==
    IF st.panic THEN st
    ELSE IF st.sh.pic_order_cnt_type = 0
    THEN SetUe(st, "log2_max_pic_order_cnt_lsb_minus4", bld)
    ELSE IF st.sh.pic_order_cnt_type = 1
    THEN Let(SetUe(SetUe(SetFlag(st, "delta_pic_order_always_zero_flag"),
                         "offset_for_non_ref_pic", bld),
                   "offset_for_top_to_bottom_field", bld), LAMBDA t :
             IF t.panic THEN t
             ELSE Let(read_ue(t.r, bld), LAMBDA num :
                  IF num.panic THEN [t EXCEPT !.r = num.r, !.panic = TRUE]
                  ELSE Let(ReadUeList(num.r, U32ToNat(num.val), bld, <<>>), LAMBDA l :
                           [t EXCEPT !.r = l.r, !.panic = l.panic,
                                     !.sh.ref_frames_in_pic_order_cnt_cycle = l.list])))
    ELSE st

\* The crop units `match chroma_format_idc` chooses, NoValue for `_ => return None`.
CropUnits(chroma_format_idc, frame_mbs_only) ==
    CASE chroma_format_idc = 0 -> Some([x |-> 1, y |-> 2 - frame_mbs_only])
      [] chroma_format_idc = 1 -> Some([x |-> 2, y |-> 2 * (2 - frame_mbs_only)])
      [] chroma_format_idc = 2 -> Some([x |-> 2, y |-> 1 * (2 - frame_mbs_only)])
      [] chroma_format_idc = 3 -> Some([x |-> 1, y |-> 1 * (2 - frame_mbs_only)])
      [] OTHER -> NoValue

\* `width -= frame_crop_width * crop_unit_x; height -= frame_crop_height * crop_unit_y`
SpsCropDimensions(st, bld) ==
    IF st.panic THEN st
    ELSE LET frame_crop_width == Add32(Nat32(st.sh.frame_crop_left_offset),
                                       Nat32(st.sh.frame_crop_right_offset))
             frame_crop_height == Add32(Nat32(st.sh.frame_crop_top_offset),
                                        Nat32(st.sh.frame_crop_bottom_offset))
             across == After(Mul32(frame_crop_width.sum, st.sh.crop_unit_x),
                             frame_crop_width)
             down == After(Mul32(frame_crop_height.sum, st.sh.crop_unit_y),
                           frame_crop_height)
         IN  SetU32(SetU32(st, "width", After(Sub32(st.sh.width, across.sum), across),
                           bld),
                    "height", After(Sub32(st.sh.height, down.sum), down), bld)

\* `if frame_cropping_flag { ... }`; returned = TRUE at `_ => return None`.
SpsCropping(st, bld) ==
    IF st.panic \/ ~st.sh.frame_cropping_flag THEN st
    ELSE Let(CropUnits(st.sh.chroma_format_idc, st.sh.frame_mbs_only), LAMBDA u :
             IF ~u.some THEN [st EXCEPT !.returned = TRUE]
             ELSE SpsCropDimensions(
                      SetUe(SetUe(SetUe(SetUe(
                          [st EXCEPT !.sh.crop_unit_x = u.v.x, !.sh.crop_unit_y = u.v.y],
                          "frame_crop_left_offset", bld),
                          "frame_crop_right_offset", bld),
                          "frame_crop_top_offset", bld),
                          "frame_crop_bottom_offset", bld), bld))

\* `if vui_parameters_present_flag { vui = Some(parse_vui(..)) }`
SpsVui(st, beyond, bld) ==
    IF st.panic \/ ~st.sh.vui_parameters_present_flag THEN st
    ELSE Let(parse_vui(st.r, beyond, bld), LAMBDA v :
             IF v.panic THEN [st EXCEPT !.r = v.r, !.panic = TRUE]
             ELSE [st EXCEPT !.r = v.r, !.sh.vui = Some(v.sh)])

\* The statements of parse_sps_nalu_with_vui after the reader is made, in the order
\* of the code.  c holds parse_vui_beyond_aspect_ratio and the build.
SpsStatement(i, st, c) ==
    CASE i = 1 -> SetBits(SetBits(SetBits(st, "profile", 8),
                                  "profile_compatibility", 8), "level", 8)
      [] i = 2 -> SetUe(st, "parameter_set_id", c.bld)
      [] i = 3 -> SetTo(st, "chroma_format_idc", IF st.sh.profile = 138 THEN 0 ELSE 1)
      [] i = 4 -> SpsHighProfile(st, c.bld)
      [] i = 5 -> SetUe(SetUe(st, "log2_max_frame_num_minus4", c.bld),
                        "pic_order_cnt_type", c.bld)
      [] i = 6 -> SpsPicOrderCnt(st, c.bld)
      [] i = 7 -> SetFlag(SetUe(st, "num_ref_frames", c.bld),
                          "gaps_in_frame_num_value_allowed_flag")
      [] i = 8 -> SetUe(SetUe(st, "pic_width_in_mbs_minus1", c.bld),
                        "pic_height_in_map_units_minus1", c.bld)
      [] i = 9 -> Let(Add32(Nat32(st.sh.pic_width_in_mbs_minus1), Nat32(1)), LAMBDA w :
                      SetU32(st, "width", After(Mul32(w.sum, 16), w), c.bld))
      [] i = 10 -> Let(Add32(Nat32(st.sh.pic_height_in_map_units_minus1), Nat32(1)),
                       LAMBDA h : SetU32(st, "height", After(Mul32(h.sum, 16), h), c.bld))
      [] i = 11 -> SetFlag(st, "frame_mbs_only_flag")
      [] i = 12 -> IF ~st.sh.frame_mbs_only_flag
                   THEN SetFlag(st, "mb_adaptive_frame_field_flag") ELSE st
      [] i = 13 -> SetFlag(SetFlag(st, "direct_8x8_inference_flag"),
                           "frame_cropping_flag")
      [] i = 14 -> IF st.sh.frame_mbs_only_flag THEN SetTo(st, "frame_mbs_only", 1)
                   ELSE SetU32(st, "height", Mul32(st.sh.height, 2), c.bld)
      [] i = 15 -> SpsCropping(st, c.bld)
      [] i = 16 -> SetFlag(st, "vui_parameters_present_flag")
      [] i = 17 -> SetTo(st, "nr_bytes_before_vui", nr_bytes_read(st.r))
      [] i = 18 -> SpsVui(st, c.beyond, c.bld)
      [] i = 19 -> SetTo(st, "nr_bytes_read", nr_bytes_read(st.r))

\* Statements i..n, one after the other, up to one that panics or returns.
RECURSIVE SpsStatements(_, _, _, _)
SpsStatements(i, n, st, c) ==
    IF i > n \/ st.panic \/ st.returned THEN st
    ELSE SpsStatements(i + 1, n, SpsStatement(i, st, c), c)

\* parse_sps_nalu_with_vui.  r_end is the reader at the return.
parse_sps_nalu_with_vui(nalu, parse_vui_beyond_aspect_ratio, bld) ==
    IF nalu = <<>> \/ NaluTypeOf(nalu[1]) # NaluType.SPS
    THEN [out |-> NoValue, panic |-> FALSE, r_end |-> NewReader("BitReader", <<>>)]
    ELSE Let(SpsStatements(1, 19,
                 [r |-> NewReader("BitReader",
                            remove_emulation_prevention_bytes(Slice(nalu, 1, Len(nalu)))),
                  panic |-> FALSE, returned |-> FALSE, sh |-> SpsLocals],
                 [beyond |-> parse_vui_beyond_aspect_ratio, bld |-> bld]), LAMBDA e :
             [panic |-> e.panic, r_end |-> e.r,
              out |-> IF e.panic \/ e.returned \/ acc_error(e.r) # "None"
                      THEN NoValue ELSE Some(e.sh)])

\* parse_sps_nalu
parse_sps_nalu(nalu, bld) == parse_sps_nalu_with_vui(nalu, TRUE, bld)

\* The values of the SPS fields tried: Baseline (66) and High (100) profile, a
\* picture of one macroblock and one of 20 by 20, frame and field coding, no
\* cropping, empty cropping, cropping inside the picture and cropping by more
\* than 16 samples, with and without VUI.
SpsFieldValues ==
    {f \in [profile : {66, 100}, chroma : 0..4, mbs : {0, 19}, fmo : BOOLEAN,
            crop : {"none", "zero", "inside", "beyond"}, vui : BOOLEAN] :
        f.profile = 66 => f.chroma = 1}

\* The four crop offsets (left, right, top, bottom) of a kind of cropping.
CropOffsets(crop) ==
    CASE crop = "zero" -> <<0, 0, 0, 0>>
      [] crop = "inside" -> <<0, 1, 1, 0>>
      [] crop = "beyond" -> <<5, 4, 0, 9>>

\* The RBSP of an SPS with the field values f as an encoder writes it.
SpsBits(f) ==
    NatBits(f.profile, 8) \o NatBits(0, 8) \o NatBits(30, 8) \o UeBits(0)
    \o (IF f.profile = 100
        THEN UeBits(f.chroma) \o (IF f.chroma = 3 THEN <<0>> ELSE <<>>)
             \o UeBits(0) \o UeBits(0) \o <<0, 0>>
        ELSE <<>>)
    \o UeBits(0) \o UeBits(0) \o UeBits(2) \o UeBits(1) \o <<0>>
    \o UeBits(f.mbs) \o UeBits(f.mbs)
    \o FlagBit(f.fmo) \o (IF f.fmo THEN <<>> ELSE <<0>>) \o <<1>>
    \o (IF f.crop = "none" THEN <<0>>
        ELSE <<1>> \o UeBits(CropOffsets(f.crop)[1]) \o UeBits(CropOffsets(f.crop)[2])
                   \o UeBits(CropOffsets(f.crop)[3]) \o UeBits(CropOffsets(f.crop)[4]))
    \o (IF f.vui THEN <<1, 1>> \o NatBits(1, 8) \o Zeros(8) ELSE <<0>>)
    \o <<1>>

\* The SPS NAL units of tests/sps_test.rs (SPS1 and SPS2).
TestSps1 ==
    <<103, 100, 0, 32, 172, 202, 192, 80, 5, 187, 1, 105, 224, 0, 0,
      3, 0, 32, 0, 0, 12, 156, 76, 0, 4, 50, 56, 0, 8, 100, 124, 18,
      64, 28, 177, 195, 19, 128>>

TestSps2 ==
    <<103, 100, 0, 13, 172, 217, 65, 65, 159, 158, 16, 0, 0, 3, 0, 16,
      0, 0, 3, 3, 192, 241, 66, 153, 96>>

\* SPS NAL units: those written from the field values, the two of the tests and
\* every truncation of the second, a PPS.
SpsNalus ==
    {<<SpsHeader>> \o PadBytes(SpsBits(f)) : f \in SpsFieldValues}
    \cup {TestSps1} \cup Prefixes(TestSps2) \cup {<<PpsHeader, 206, 56, 128>>}

ParseSps ==
    /\ pc = "sps"
    /\ res' = parse_sps_nalu_with_vui(arg.nalu, arg.parse_vui_beyond_aspect_ratio, build)
    /\ pc' = IF res'.panic THEN "panic" ELSE "sps_parsed"
    /\ UNCHANGED <<build, arg, annexbVars, avccVars, readerVars, tableVars>>

-----------------------------------------------------------------------------
(* Calls of read_scaling_list (avc/sps.rs, avc/pps.rs: the same code) *)

\* delta_scale values: inside the range -128..127 of the standard, and one below
\* -(last_scale + 256).
Deltas == {0, 1, -8, -9, 127, -265}

\* The se(v) codes of a sequence of deltas.
RECURSIVE DeltaBits(_)
DeltaBits(ds) == IF ds = <<>> THEN <<>> ELSE SeBits(Head(ds)) \o DeltaBits(Tail(ds))

\* What follows the coded deltas: the end of the data, or 16 codes of delta 0.
ScalingFill(fill) == IF fill = "ones" THEN Ones(16) ELSE <<>>

ScalingInputs ==
    {[fn |-> "read_scaling_list", deltas |-> ds, fill |-> fill, size |-> size,
      data |-> PadBytes(DeltaBits(ds) \o ScalingFill(fill))] :
         ds \in SeqsUpTo(Deltas, MaxDeltas), fill \in {"end", "ones"}, size \in {4, 16}}

ReadScalingList ==
    /\ pc = "scaling"
    /\ res' = read_scaling_list(NewReader("BitReader", arg.data), arg.size, build)
    /\ pc' = IF res'.panic THEN "panic" ELSE "scaling_done"
    /\ UNCHANGED <<build, arg, annexbVars, avccVars, readerVars, tableVars>>

-----------------------------------------------------------------------------
(* Calls of avc/sei.rs parse_sei_nalu *)

\* `while pos < nalu.len() { let b = nalu[pos]; pos += 1; typ += b; if b != 0xff
\* { break; } }` from a 0-based pos and a sum so far.
RECURSIVE SeiSum(_, _, _)
SeiSum(nalu, pos, sum) ==
    IF pos >= Len(nalu) THEN [pos |-> pos, sum |-> sum]
    ELSE IF nalu[pos + 1] # 255 THEN [pos |-> pos + 1, sum |-> sum + nalu[pos + 1]]
    ELSE SeiSum(nalu, pos + 1, sum + 255)

\* The outer `while pos < nalu.len()` of parse_sei_nalu.
RECURSIVE SeiPayloadsFrom(_, _, _)
SeiPayloadsFrom(nalu, pos, payloads) ==
    IF pos >= Len(nalu) THEN payloads
    ELSE LET typ == SeiSum(nalu, pos, 0)
             len == SeiSum(nalu, typ.pos, 0)
         IN  IF len.pos + len.sum > Len(nalu) THEN payloads
             ELSE LET pushed == Append(payloads,
                                       SubSeq(nalu, len.pos + 1, len.pos + len.sum))
                  IN  IF typ.sum = 0 /\ len.sum = 0 THEN pushed
                      ELSE SeiPayloadsFrom(nalu, len.pos + len.sum, pushed)

parse_sei_nalu(nalu) ==
    IF Len(nalu) = 0 \/ NaluTypeOf(nalu[1]) # NaluType.SEI THEN NoValue
    ELSE Some(SeiPayloadsFrom(nalu, 1, <<>>))

SeiBytes == {0, 1, 2, 255}

\* NAL units with an SEI header (06) or an SPS header (67), and the empty one.
SeiNalus ==
    {<<>>} \cup {<<h>> \o body : h \in {6, 103}, body \in SeqsUpTo(SeiBytes, MaxSei)}

ParseSei ==
    /\ pc = "sei"
    /\ res' = parse_sei_nalu(arg.nalu)
    /\ pc' = "sei_done"
    /\ UNCHANGED <<build, arg, annexbVars, avccVars, readerVars, tableVars>>

\* get_slice_type_from_nalu: the Option returned, and whether the call panicked
\* instead.
get_slice_type_from_nalu(nalu, bld) ==
    IF Len(nalu) <= 1 THEN [out |-> NoValue, panic |-> FALSE]
    ELSE IF NaluTypeOf(nalu[1]) \notin {NaluType.NonIDR, NaluType.IDR}
    THEN [out |-> NoValue, panic |-> FALSE]
    ELSE Let(read_ue(NewReader("BitReader", Tail(nalu)), bld),
             LAMBDA first_mb_in_slice :
             IF first_mb_in_slice.panic THEN [out |-> NoValue, panic |-> TRUE]
             ELSE Let(read_ue(first_mb_in_slice.r, bld), LAMBDA x :
                      \* a value of 2^31 or more stays above 4 after `st -= 5`
                      LET st == IF x.val[1] = 1 THEN 5
                                ELSE IF U32ToNat(x.val) >= 5 THEN U32ToNat(x.val) - 5
                                ELSE U32ToNat(x.val)
                      IN  IF x.panic THEN [out |-> NoValue, panic |-> TRUE]
                          ELSE IF st \in 0..4 THEN [out |-> Some(st), panic |-> FALSE]
                          ELSE [out |-> NoValue, panic |-> FALSE]))

-----------------------------------------------------------------------------
(* parse_slice_header (avc/slice.rs) step by step: one action per iteration of
   its three `loop`s, and one per statement outside them.  res.steps counts the
   steps taken since the call. *)

\* `loop { .. }` body of ref_pic_list_modification, once.  brk says that the
\* iteration left the loop.
RplmBody(st, bld) ==
    Let(SetUe(st, "modification_of_pic_nums_idc", bld), LAMBDA s1 :
        LET idc == s1.sh.modification_of_pic_nums_idc
        IN  IF s1.panic \/ idc = 3 THEN [st |-> s1, brk |-> TRUE]
            ELSE Let(IF idc \in {0, 1} THEN SetUe(s1, "abs_diff_pic_num_minus1", bld)
                     ELSE IF idc = 2 THEN SetUe(s1, "long_term_pic_num", bld)
                     ELSE IF idc \in {4, 5}
                     THEN SetUe(s1, "abs_diff_view_idx_minus1", bld)
                     ELSE s1, LAMBDA s2 :
                     [st |-> s2, brk |-> s2.panic \/ acc_error(s2.r) # "None"]))

\* `loop { .. }` body of dec_ref_pic_marking, once.
MmcoBody(st, bld) ==
    Let(read_ue(st.r, bld), LAMBDA x :
        LET mmco == U32ToNat(x.val)
            s0 == [st EXCEPT !.r = x.r, !.panic = x.panic]
        IN  IF x.panic THEN [st |-> s0, brk |-> TRUE]
            ELSE Let(IF mmco \in {1, 3}
                     THEN SetUe(s0, "difference_of_pic_nums_minus1", bld)
                     ELSE IF mmco = 2 THEN SetUe(s0, "long_term_pic_num", bld)
                     ELSE s0, LAMBDA s1 :
                 IF mmco = 0 THEN [st |-> s1, brk |-> TRUE]
                 ELSE Let(IF mmco \in {3, 6} THEN SetUe(s1, "long_term_fram_idx", bld)
                          ELSE IF mmco = 4
                          THEN SetUe(s1, "max_long_term_frame_idx_plus1", bld)
                          ELSE s1, LAMBDA s2 :
                          [st |-> s2, brk |-> s2.panic \/ acc_error(s2.r) # "None"])))

\* The statements of SliceStatement that hold a `loop`.
LoopStatements == {10, 11, 13}

\* The flag read in front of the loop of statement i; enter says that the loop
\* is entered.
LoopFlag(i, st, c) ==
    LET slice_mod == st.sh.slice_type % 5
    IN  IF i = 10
        THEN IF slice_mod # SliceType.I /\ slice_mod # SliceType.SI
             THEN Let(SetFlag(st, "ref_pic_list_modification_l0_flag"), LAMBDA a :
                      [st |-> a, enter |-> a.sh.ref_pic_list_modification_l0_flag])
             ELSE [st |-> st, enter |-> FALSE]
        ELSE IF i = 11
        THEN IF slice_mod = SliceType.B
             THEN Let(SetFlag(st, "ref_pic_list_modification_l1_flag"), LAMBDA a :
                      [st |-> a, enter |-> a.sh.ref_pic_list_modification_l1_flag])
             ELSE [st |-> st, enter |-> FALSE]
        ELSE IF c.nal_ref_idc # 0
             THEN IF c.ntype = NaluType.IDR
                  THEN [st |-> SetFlag(SetFlag(st, "no_output_of_prior_pics_flag"),
                                       "long_term_reference_flag"),
                        enter |-> FALSE]
                  ELSE Let(SetFlag(st, "adaptive_ref_pic_marking_mode_flag"),
                           LAMBDA a :
                           [st |-> a,
                            enter |-> a.sh.adaptive_ref_pic_marking_mode_flag])
             ELSE [st |-> st, enter |-> FALSE]

\* The coded operations of a ref_pic_list_modification loop and of a
\* dec_ref_pic_marking loop: the operation and what it carries.
RplmOpBits(idc) ==
    UeBits(idc) \o (IF idc = 0 THEN UeBits(4) ELSE IF idc = 2 THEN UeBits(1)
                    ELSE IF idc = 5 THEN UeBits(0) ELSE <<>>)

MmcoOpBits(mmco) ==
    UeBits(mmco) \o (IF mmco = 1 THEN UeBits(2)
                     ELSE IF mmco = 3 THEN UeBits(1) \o UeBits(0) ELSE <<>>)

RECURSIVE OpsBits(_, _)
OpsBits(ops, rplm) ==
    IF ops = <<>> THEN <<>>
    ELSE (IF rplm THEN RplmOpBits(Head(ops)) ELSE MmcoOpBits(Head(ops)))
             \o OpsBits(Tail(ops), rplm)

\* A NonIDR slice of type t for PlainPps and TestSps whose loops hold the given
\* operations, each loop closed by its end code.
LoopSliceBits(t, rplm, mmco) ==
    UeBits(0) \o UeBits(t) \o UeBits(1) \o NatBits(3, 4) \o NatBits(5, 6)
    \o (IF t % 5 = SliceType.B THEN <<1>> ELSE <<>>)
    \o (IF t % 5 \in {SliceType.P, SliceType.B}
        THEN <<0, 1>> \o OpsBits(rplm, TRUE) \o UeBits(3) ELSE <<>>)
    \o (IF t % 5 = SliceType.B THEN <<1>> \o OpsBits(rplm, TRUE) \o UeBits(3)
        ELSE <<>>)
    \o <<1>> \o OpsBits(mmco, FALSE) \o UeBits(0)
    \o SeBits(-2) \o UeBits(1) \o <<1>>

\* Such slices and every truncation of them; an I slice; a slice of type 10; a
\* slice that starts with 32 zero bits; a slice that names PPS 0; an IDR slice; an
\* SPS.
LoopNalus ==
    UNION {Prefixes(<<65>> \o PadBytes(LoopSliceBits(t, rplm, mmco))) :
               t \in {0, 6}, rplm \in SeqsUpTo({0, 5}, MaxOps),
               mmco \in SeqsUpTo({1, 3}, MaxOps)}
    \cup {<<65>> \o PadBytes(LoopSliceBits(2, <<>>, <<5>>)),
          <<65>> \o PadBytes(LoopSliceBits(10, <<>>, <<>>)),
          <<65, 0, 0, 0, 0, 128>>, <<65, 224>>,
          <<101, 136, 132, 0, 0, 3, 128, 0, 0, 40>>, <<103, 66, 0, 30>>}

SliceStart ==
    /\ pc = "slice_start"
    /\ LET nalu == arg.nalu
           none == [r |-> NewReader("EbspReader", nalu), sh |-> SliceHeader_default,
                    panic |-> FALSE]
           ntype == NaluTypeOf(nalu[1])
           nal_hdr == read(none.r, 8)
           s3 == SetUe(SetUe(SetUe([none EXCEPT !.r = nal_hdr.r],
                                   "first_mb_in_slice", build),
                             "slice_type", build),
                       "pic_param_id", build)
           pps == HashMap_get(arg.pps_map, s3.sh.pic_param_id)
           s4 == [s3 EXCEPT !.sh.seq_param_id = pps.v.seq_parameter_set_id]
           sps == HashMap_get(arg.sps_map, s4.sh.seq_param_id)
       IN  IF nalu = <<>> \/ (ntype # NaluType.NonIDR /\ ntype # NaluType.IDR)
           THEN res' = SliceReturn(NoValue, none) /\ pc' = "slice_returned"
           ELSE IF s3.panic
           THEN res' = SliceReturn(NoValue, s3) /\ pc' = "panic"
           ELSE IF ~pps.some
           THEN res' = SliceReturn(NoValue, s3) /\ pc' = "slice_returned"
           ELSE IF ~sps.some
           THEN res' = SliceReturn(NoValue, s4) /\ pc' = "slice_returned"
           ELSE /\ res' = [at |-> "body", i |-> 1, steps |-> 1, st |-> s4,
                           c |-> [ntype |-> ntype,
                                  nal_ref_idc |-> (U32ToNat(nal_hdr.val) \div 32) % 4,
                                  sps |-> sps.v, pps |-> pps.v, bld |-> build]]
                /\ pc' = "slice_body"
    /\ UNCHANGED <<build, arg, annexbVars, avccVars, readerVars, tableVars>>

\* Statement res.i, one that holds no loop.
SliceStraight ==
    /\ pc = "slice_body"
    /\ res.i <= 18 /\ res.i \notin LoopStatements
    /\ res' = [res EXCEPT !.st = SliceStatement(res.i, res.st, res.c), !.i = @ + 1,
                           !.steps = @ + 1]
    /\ pc' = IF res'.st.panic THEN "panic" ELSE "slice_body"
    /\ UNCHANGED <<build, arg, annexbVars, avccVars, readerVars, tableVars>>

SliceLoopFlag ==
    /\ pc = "slice_body"
    /\ res.i \in LoopStatements
    /\ LET f == LoopFlag(res.i, res.st, res.c)
       IN  /\ res' = [res EXCEPT !.st = f.st, !.i = IF f.enter THEN @ ELSE @ + 1,
                                  !.steps = @ + 1]
           /\ pc' = IF f.enter THEN "slice_loop" ELSE "slice_body"
    /\ UNCHANGED <<build, arg, annexbVars, avccVars, readerVars, tableVars>>

SliceLoopIteration ==
    /\ pc = "slice_loop"
    /\ LET b == IF res.i = 13 THEN MmcoBody(res.st, build)
                ELSE RplmBody(res.st, build)
       IN  /\ res' = [res EXCEPT !.st = b.st, !.i = IF b.brk THEN @ + 1 ELSE @,
                                  !.steps = @ + 1]
           /\ pc' = IF b.st.panic THEN "panic"
                    ELSE IF b.brk THEN "slice_body" ELSE "slice_loop"
    /\ UNCHANGED <<build, arg, annexbVars, avccVars, readerVars, tableVars>>

\* `sh.size = r.nr_bytes_read(); if r.acc_error().is_some() { None } else { Some(sh) }`
SliceFinish ==
    /\ pc = "slice_body"
    /\ res.i = 19
    /\ LET s6 == [res.st EXCEPT !.sh.size = nr_bytes_read(res.st.r)]
       IN  res' = IF acc_error(s6.r) # "None" THEN SliceReturn(NoValue, s6)
                  ELSE SliceReturn(Some(s6.sh), s6)
    /\ pc' = "slice_returned"
    /\ UNCHANGED <<build, arg, annexbVars, avccVars, readerVars, tableVars>>

-----------------------------------------------------------------------------
(* Calls of avc/annexb.rs extract_nalus_from_bytestream and
   get_parameter_sets_from_bytestream *)

\* `let mut end = pos; while end > s && data[end - 1] == 0 { end -= 1; }`
RECURSIVE TrimmedEnd(_, _, _)
TrimmedEnd(data, s, end) ==
    IF end > s /\ At(data, end - 1) = 0 THEN TrimmedEnd(data, s, end - 1) ELSE end

\* `if let Some(s) = curr_start { .. nalus.push(data[s..end].to_vec()); }`
PushNalu(data, curr_start, pos, nalus) ==
    IF curr_start.some
    THEN Append(nalus, Slice(data, curr_start.v, TrimmedEnd(data, curr_start.v, pos)))
    ELSE nalus

\* The `while pos + 3 <= data.len()` loop of extract_nalus_from_bytestream and the
\* push after it.
RECURSIVE ExtractLoop(_, _, _, _)
ExtractLoop(data, pos, curr_start, nalus) ==
    IF ~(pos + 3 <= Len(data)) THEN PushNalu(data, curr_start, Len(data), nalus)
    ELSE IF pos + 4 <= Len(data) /\ Slice(data, pos, pos + 4) = <<0, 0, 0, 1>>
    THEN ExtractLoop(data, pos + 4, Some(pos + 4), PushNalu(data, curr_start, pos, nalus))
    ELSE IF Slice(data, pos, pos + 3) = <<0, 0, 1>>
    THEN ExtractLoop(data, pos + 3, Some(pos + 3), PushNalu(data, curr_start, pos, nalus))
    ELSE ExtractLoop(data, pos + 1, curr_start, nalus)

extract_nalus_from_bytestream(data) == ExtractLoop(data, 0, NoValue, <<>>)

\* NaluType::is_video
is_video(t) == t \in 1..5

\* The `for nalu in ..` loop of get_parameter_sets_from_bytestream from the i-th
\* NAL unit on.  `nalu[0]` is an index out of bounds on an empty NAL unit.
RECURSIVE ParameterSetsFrom(_, _, _, _)
ParameterSetsFrom(nalus, i, sps, pps) ==
    IF i > Len(nalus) THEN [sps |-> sps, pps |-> pps, panic |-> FALSE]
    ELSE IF Len(nalus[i]) = 0 THEN [sps |-> sps, pps |-> pps, panic |-> TRUE]
    ELSE LET t == NaluTypeOf(nalus[i][1])
         IN  IF t = NaluType.SPS
             THEN ParameterSetsFrom(nalus, i + 1, Append(sps, nalus[i]), pps)
             ELSE IF t = NaluType.PPS
             THEN ParameterSetsFrom(nalus, i + 1, sps, Append(pps, nalus[i]))
             ELSE IF is_video(t) THEN [sps |-> sps, pps |-> pps, panic |-> FALSE]
             ELSE ParameterSetsFrom(nalus, i + 1, sps, pps)

get_parameter_sets_from_bytestream(data) ==
    ParameterSetsFrom(extract_nalus_from_bytestream(data), 1, <<>>, <<>>)

\* NAL units of a stream: SPS (67, 27), PPS (68, 28), video (65, 41), SEI (06) and
\* the empty unit; after a start code of three or four bytes.
StreamNalus == {<<103, 66>>, <<39>>, <<104>>, <<40, 206>>, <<101, 136>>, <<65>>, <<6>>, <<>>}

StartCodes == {<<0, 0, 1>>, <<0, 0, 0, 1>>}

StreamUnits == {[code |-> c, nalu |-> n] : c \in StartCodes, n \in StreamNalus}

UnitsBytes(units) == Flatten([i \in 1..Len(units) |-> units[i].code \o units[i].nalu])

GetParameterSets ==
    /\ pc = "param_sets"
    /\ res' = get_parameter_sets_from_bytestream(arg.data)
    /\ pc' = IF res'.panic THEN "panic" ELSE "param_sets_done"
    /\ UNCHANGED <<build, arg, annexbVars, avccVars, readerVars, tableVars>>

-----------------------------------------------------------------------------
(* Specifications: one per component, each with the other components idle. *)

InitAnnexB ==
    /\ build \in Builds
    /\ \/ pc = "sample" /\ sample \in WellFormedSamples /\ stream = <<>>
       \/ pc = "stream" /\ sample = <<>> /\ stream \in ByteStreams
    /\ out = <<>>
    /\ IdleAvcc /\ IdleReader /\ IdleTables /\ IdleCall

NextAnnexB == SampleToBytestream \/ BytestreamToSample

SpecAnnexB == InitAnnexB /\ [][NextAnnexB]_vars

InitAvcc ==
    /\ build \in Builds
    /\ \/ pc = "rec" /\ rec \in DecConfRecs /\ avcc = <<>>
       \/ pc = "avcc" /\ rec = NoRec /\ avcc \in AvccInputs
    /\ decoded = NoValue /\ reencoded = <<>>
    /\ IdleAnnexB /\ IdleReader /\ IdleTables /\ IdleCall

NextAvcc == Encode \/ Decode \/ Reencode

SpecAvcc == InitAvcc /\ [][NextAvcc]_vars

InitReader ==
    /\ build \in Builds
    /\ pc = "reader"
    /\ \E kind \in {"BitReader", "EbspReader"}, data \in ReaderInputs :
           r = NewReader(kind, data)
    /\ ret = NoRet /\ taken = 0
    /\ IdleAnnexB /\ IdleAvcc /\ IdleTables /\ IdleCall

NextReader ==
    \/ \E n \in Widths : Read(n)
    \/ \E n \in Widths : ReadSigned(n)
    \/ ReadFlag
    \/ ReadRemainingBytes

SpecReader == InitReader /\ [][NextReader]_vars

InitGolomb ==
    /\ build \in Builds
    /\ pc = "golomb"
    /\ \E kind \in {"BitReader", "EbspReader"}, data \in UeInputs :
           r = NewReader(kind, data)
    /\ ret = NoRet /\ taken = 0
    /\ IdleAnnexB /\ IdleAvcc /\ IdleTables /\ IdleCall

NextGolomb == ReadUe

SpecGolomb == InitGolomb /\ [][NextGolomb]_vars

InitTables ==
    /\ build \in Builds
    /\ pc = "tables"
    /\ tbl \in Tables
    /\ samples = NoSamples
    /\ IdleAnnexB /\ IdleAvcc /\ IdleReader /\ IdleCall

NextTables == CollectSamples \/ CollectSamplesGeneral

SpecTables == InitTables /\ [][NextTables]_vars

InitBoxWalk ==
    /\ build \in Builds
    /\ pc = "walk"
    /\ \E data \in BoxBuffers, name \in {Fourcc_free, Fourcc_mdat} :
           /\ arg = [fn |-> "find_box_range", data |-> data, name |-> name]
           /\ res = WalkStart(data, name)
    /\ IdleAnnexB /\ IdleAvcc /\ IdleReader /\ IdleTables

NextBoxWalk == WalkHeader \/ WalkBody

\* The walk is a running loop: a step that can be taken is taken.
SpecBoxWalk == InitBoxWalk /\ [][NextBoxWalk]_vars /\ WF_vars(NextBoxWalk)

InitPps ==
    /\ pc = "pps"
    /\ build \in Builds
    /\ IdleAnnexB /\ IdleAvcc /\ IdleReader /\ IdleTables
    /\ arg \in {[fn |-> "parse_pps_nalu", nalu |-> n] : n \in PpsNalus}
    /\ res = NoRes

NextPps == ParsePps

SpecPps == InitPps /\ [][NextPps]_vars

InitSlice ==
    /\ pc = "slice"
    /\ build \in Builds
    /\ IdleAnnexB /\ IdleAvcc /\ IdleReader /\ IdleTables
    /\ arg \in {[fn |-> "parse_slice_header", nalu |-> n, sps_map |-> sm, pps_map |-> pm] :
                    n \in SliceNalus, sm \in SpsMaps, pm \in PpsMaps}
    /\ res = NoRes

NextSlice == ParseSliceHeader

SpecSlice == InitSlice /\ [][NextSlice]_vars

\* arg.traks tells what the file in arg.data was written from.
InitTrack ==
    /\ pc = "track"
    /\ build \in Builds
    /\ IdleAnnexB /\ IdleAvcc /\ IdleReader /\ IdleTables
    /\ \E traks \in TrakLists, variant \in {"Wvtt", "Stpp", "Tx3g", "Video"} :
           arg = [fn |-> IF variant = "Video" THEN "extract_avc_track"
                         ELSE "find_track_inner",
                  data |-> FileBytes(traks), variant |-> variant, traks |-> traks]
    /\ res = NoRes

NextTrack == FindTrack \/ ExtractAvcTrack

SpecTrack == InitTrack /\ [][NextTrack]_vars

InitNalus ==
    /\ pc = "nalus"
    /\ build \in Builds
    /\ IdleAnnexB /\ IdleAvcc /\ IdleReader /\ IdleTables
    /\ arg \in {[fn |-> "get_nalus_from_sample", sample |-> s] : s \in NaluSamples}
    /\ res = NoRes

NextNalus == GetNalusFromSample

SpecNalus == InitNalus /\ [][NextNalus]_vars

InitUnescape ==
    /\ pc = "unescape"
    /\ build \in Builds
    /\ IdleAnnexB /\ IdleAvcc /\ IdleTables
    /\ arg \in {[fn |-> "remove_emulation_prevention_bytes", data |-> d] : d \in EscInputs}
    /\ r = NewReader("EbspReader", arg.data) /\ ret = NoRet /\ taken = 0
    /\ res = NoUnescaped

NextUnescape == RemoveEmulationPreventionBytes \/ EbspReadByte

SpecUnescape == InitUnescape /\ [][NextUnescape]_vars

InitLazyEager ==
    /\ pc = "both"
    /\ build \in Builds
    /\ IdleAnnexB /\ IdleAvcc /\ IdleTables
    /\ arg \in {[fn |-> "read", data |-> d] : d \in RawInputs}
    /\ r = NewReader("EbspReader", arg.data) /\ ret = NoRet /\ taken = 0
    /\ res = BothStart(arg.data)

NextLazyEager == \E n \in BothWidths : ReadBoth(n)

SpecLazyEager == InitLazyEager /\ [][NextLazyEager]_vars

InitSps ==
    /\ pc = "sps"
    /\ build \in Builds
    /\ IdleAnnexB /\ IdleAvcc /\ IdleReader /\ IdleTables
    /\ arg \in {[fn |-> "parse_sps_nalu_with_vui", nalu |-> n,
                 parse_vui_beyond_aspect_ratio |-> b] : n \in SpsNalus, b \in BOOLEAN}
    /\ res = NoRes

NextSps == ParseSps

SpecSps == InitSps /\ [][NextSps]_vars

InitScaling ==
    /\ pc = "scaling"
    /\ build \in Builds
    /\ IdleAnnexB /\ IdleAvcc /\ IdleReader /\ IdleTables
    /\ arg \in ScalingInputs
    /\ res = NoRes

NextScaling == ReadScalingList

SpecScaling == InitScaling /\ [][NextScaling]_vars

InitSei ==
    /\ pc = "sei"
    /\ build \in Builds
    /\ IdleAnnexB /\ IdleAvcc /\ IdleReader /\ IdleTables
    /\ arg \in {[fn |-> "parse_sei_nalu", nalu |-> n] : n \in SeiNalus}
    /\ res = NoRes

NextSei == ParseSei

SpecSei == InitSei /\ [][NextSei]_vars

InitSliceSteps ==
    /\ pc = "slice_start"
    /\ build \in Builds
    /\ IdleAnnexB /\ IdleAvcc /\ IdleReader /\ IdleTables
    /\ arg \in {[fn |-> "parse_slice_header", nalu |-> n, sps_map |-> sm, pps_map |-> pm] :
                    n \in LoopNalus, sm \in {[k \in {0} |-> TestSps]},
                    pm \in {[k \in {1} |-> PlainPps]}}
    /\ res = NoRes

NextSliceSteps ==
    \/ SliceStart
    \/ SliceStraight
    \/ SliceLoopFlag
    \/ SliceLoopIteration
    \/ SliceFinish

SpecSliceSteps == InitSliceSteps /\ [][NextSliceSteps]_vars

InitParamSets ==
    /\ pc = "param_sets"
    /\ build \in Builds
    /\ IdleAnnexB /\ IdleAvcc /\ IdleReader /\ IdleTables
    /\ arg \in {[fn |-> "get_parameter_sets_from_bytestream", units |-> u,
                 data |-> UnitsBytes(u)] : u \in SeqsUpTo(StreamUnits, MaxUnits)}
    /\ res = NoRes

NextParamSets == GetParameterSets

SpecParamSets == InitParamSets /\ [][NextParamSets]_vars

Init ==
    \/ InitAnnexB \/ InitAvcc \/ InitReader \/ InitGolomb \/ InitTables
    \/ InitBoxWalk \/ InitPps \/ InitSlice \/ InitTrack
    \/ InitNalus \/ InitUnescape
    \/ InitLazyEager
    \/ InitSps
    \/ InitScaling
    \/ InitSei
    \/ InitSliceSteps
    \/ InitParamSets

Next ==
    \/ NextAnnexB \/ NextAvcc \/ NextReader \/ NextGolomb \/ NextTables
    \/ NextBoxWalk \/ NextPps \/ NextSlice \/ NextTrack
    \/ NextNalus \/ NextUnescape
    \/ NextLazyEager
    \/ NextSps
    \/ NextScaling
    \/ NextSei
    \/ NextSliceSteps
    \/ NextParamSets

Spec == Init /\ [][Next]_vars

-----------------------------------------------------------------------------
(* Properties of avc/annexb.rs *)

\* C1: for every well-formed length-prefixed sample,
\* convert_bytestream_to_nalu_sample(convert_sample_to_bytestream(sample)) equals
\* the sample byte for byte.
C1_RoundTrip == pc = "roundtrip" => out = sample

\* C2: no NAL payload emitted by convert_bytestream_to_nalu_sample ends in 0x00
\* (trailing zero bytes are stripped from each payload).
C2_NoTrailingZero ==
    pc = "converted" =>
        LET n == NalusLoop(out, 0, <<>>)
        IN  /\ n.some
            /\ \A i \in 1..Len(n.v) : Len(n.v[i]) = 0 \/ n.v[i][Len(n.v[i])] # 0

-----------------------------------------------------------------------------
(* Properties of avc/decconf.rs *)

\* C3: for every valid DecConfRec rec, decode_avc_decoder_config(rec.encode())
\* returns Some(rec).
C3_DecodeOfEncode == pc = "rec_roundtrip" => decoded = Some(rec)

\* A record with two SPS entries and a PPS entry, none of them empty, has made
\* the round trip.
C3_Witness ==
    /\ pc = "rec_roundtrip"
    /\ decoded.some
    /\ Len(rec.sps) = 2 /\ Len(rec.sps[1]) > 0 /\ Len(rec.sps[2]) > 0
    /\ Len(rec.pps) >= 1 /\ Len(rec.pps[1]) > 0

\* C4: for every avcC byte string b with version 1, lengthSizeMinusOne == 3 and
\* the reserved bits set to 1 that decode_avc_decoder_config accepts,
\* decode_avc_decoder_config(b).encode() equals b byte for byte.
C4_EncodeOfDecode ==
    (pc = "reencoded" /\ At(avcc, 0) = 1 /\ At(avcc, 4) = 255 /\ At(avcc, 5) >= 224)
        => reencoded = avcc

-----------------------------------------------------------------------------
(* Properties of the bit readers *)

\* C5: once a reader has recorded an error, every later call leaves the reader as
\* it is (the error kept, no input consumed), returns 0 / false / None and does
\* not panic.
C5_StickyError ==
    [][(r.err # "None") =>
           /\ r' = r
           /\ IsZero(ret'.val) /\ ~ret'.flag /\ ret'.bytes = NoValue
           /\ pc' # "panic"]_vars

\* read_flag was called on an EbspReader that had failed with bits still buffered.
C5_Witness ==
    /\ r.kind = "EbspReader"
    /\ r.err = "UnexpectedEof"
    /\ ret.op = "read_flag"
    /\ r.n > 0

\* C6: while the widths read from a BitReader add up to at most 8 times the input
\* length, no error is recorded, nr_bits_read() is the sum of the widths, and the
\* last read(n) returned the n bits of the input that end at that sum, MSB first.
C6_ReadBits ==
    (pc = "reader" /\ r.kind = "BitReader" /\ taken <= 8 * Len(r.rd)) =>
        /\ r.err = "None"
        /\ nr_bits_read(r) = taken
        /\ ret.op = "read" =>
               ret.val = ZeroExt32(SubSeq(AllBits(r.rd), taken - ret.n + 1, taken))

\* A 13-bit read that starts inside the second byte and ends inside the fourth has
\* returned a non-zero value.
C6_Witness ==
    /\ pc = "reader" /\ r.kind = "BitReader" /\ r.err = "None"
    /\ ret.op = "read" /\ ret.n = 13 /\ ret.at = 13 /\ taken = 26
    /\ ~IsZero(ret.val)

\* The number of zero bits from position i (1-based) of a bit string up to the
\* first one bit or the end.
RECURSIVE ZeroRun(_, _)
ZeroRun(bits, i) ==
    IF i > Len(bits) \/ bits[i] = 1 THEN 0 ELSE 1 + ZeroRun(bits, i + 1)

\* No emulation prevention sequence 00 00 03 in the data.
EscapeFree(data) ==
    \A i \in 1..(Len(data) - 2) : ~(data[i] = 0 /\ data[i + 1] = 0 /\ data[i + 2] = 3)

\* C7: when the bits at the reader's position are the Exp-Golomb code of a value
\* v <= 2^32 - 2 (k <= 31 zeros, a one, a k-bit suffix s), read_ue returns
\* v = (1 << k) - 1 + s, advances the reader by exactly 2k + 1 bits, records no
\* error and does not panic.  v + 1 is the one bit followed by the suffix.
C7_ReadUe ==
    [][LET bits == AllBits(r.rd)
           at == BitsConsumed(r)
           k == ZeroRun(bits, at + 1)
       IN  (/\ pc = "golomb" /\ r.err = "None"
            /\ r.kind = "EbspReader" => EscapeFree(r.rd)
            /\ k <= 31
            /\ at + 2 * k + 1 <= Len(bits))
           => /\ pc' = "golomb"
              /\ r'.err = "None"
              /\ BitsConsumed(r') = at + 2 * k + 1
              /\ ret'.op = "read_ue"
              /\ LET t == Add32(ret'.val, ZeroExt32(<<1>>))
                 IN  /\ ~t.overflow
                     /\ t.sum = ZeroExt32(SubSeq(bits, at + k + 1, at + 2 * k + 1))]_vars

\* read_ue has returned 2^32 - 2, the largest value of the claim, from a code of
\* 63 bits.
C7_Witness ==
    /\ pc = "golomb" /\ r.err = "None"
    /\ ret.op = "read_ue" /\ ret.at = 0
    /\ BitsConsumed(r) = 63
    /\ ret.val = Ones(31) \o <<0>>

-----------------------------------------------------------------------------
(* Properties of the sample-table resolver *)

\* The sum of the first n durations of the stts table.
RECURSIVE SumDurs(_, _)
SumDurs(durs, n) == IF n = 0 THEN 0 ELSE SumDurs(durs, n - 1) + durs[n]

C10_NeverFaults ==
    (\A i \in 1..Len(tbl.chunk_offsets) : ~tbl.chunk_offsets[i].hi) => pc # "panic"

-----------------------------------------------------------------------------
(* Properties of the box walk *)

\* C11: find_box_range returns after finitely many steps for every buffer and
\* name (a box of declared size 0 ends the scan of its level).
C11_WalkTerminates == <>(pc = "walked")

\* C12: whenever find_box_range returns Some((start, payload_start, payload_end)),
\* start <= payload_start <= payload_end <= len(data), payload_start - start is
\* the header length (8 or 16) and payload_end - start is at least that.
C12_RangeOrdered ==
    (pc = "walked" /\ res.out.some) =>
        LET t == res.out.v
        IN  /\ t.start <= t.payload_start
            /\ t.payload_start <= t.payload_end
            /\ t.payload_end <= Len(arg.data)
            /\ t.payload_start - t.start \in {8, 16}


-----------------------------------------------------------------------------
(* Properties of avc/pps.rs *)

\* The extended fields of a parsed PPS.
ExtendedFields(pps) ==
    <<pps.transform8x8_mode_flag, pps.pic_scaling_matrix_present_flag,
      pps.pic_scaling_lists, pps.second_chroma_qp_index_offset>>

\* C13: parse_pps_nalu reads the extended PPS fields only when more RBSP data
\* remains after redundant_pic_cnt_present_flag (the read position is short of the
\* bit length of the un-escaped payload); when none remains the reader is left
\* where it was and the fields keep their defaults false, false, no lists, 0.
\* When data remains and the reader is sound, transform8x8_mode_flag is the next
\* bit of the un-escaped payload.
C13_ExtendedOnlyWithMoreData ==
    (pc = "pps_parsed" /\ res.out.some) =>
        LET more == nr_bits_read(res.r_mand) < res.total_bits
            bits == AllBits(res.r_mand.rd)
        IN  /\ ~more => /\ res.r_end = res.r_mand
                        /\ ExtendedFields(res.out.v) = <<FALSE, FALSE, <<>>, 0>>
            /\ (more /\ acc_error(res.r_mand) = "None") =>
                   /\ res.r_end # res.r_mand
                   /\ res.out.v.transform8x8_mode_flag
                          = (bits[nr_bits_read(res.r_mand) + 1] = 1)

\* A PPS whose mandatory fields fill its payload to the last bit: parsed, with
\* the extended fields at their defaults.
C13_Witness ==
    /\ pc = "pps_parsed" /\ res.out.some
    /\ res.total_bits > 0
    /\ acc_error(res.r_mand) = "None"
    /\ nr_bits_read(res.r_mand) = res.total_bits
    /\ ExtendedFields(res.out.v) = <<FALSE, FALSE, <<>>, 0>>

\* The unit of tests/pps_test.rs: extended fields read.
C13_WitnessExtended ==
    /\ pc = "pps_parsed" /\ res.out.some
    /\ arg.nalu = <<104, 232, 67, 50, 200, 176>>
    /\ res.out.v.num_ref_idx_i0_default_active_minus1 = 15
    /\ res.out.v.chroma_qp_index_offset = -2
    /\ ExtendedFields(res.out.v) = <<TRUE, FALSE, <<>>, -2>>

\* C14: parse_pps_nalu returns None whenever the bit reader records an error while
\* the mandatory fields are read (every truncated PPS payload).
C14_NoneOnError ==
    (pc = "pps_parsed" /\ acc_error(res.r_mand) # "None") => ~res.out.some


-----------------------------------------------------------------------------
(* Properties of avc/slice.rs *)

\* C15: whenever parse_slice_header returns a header, its size is
\* ceil(bits_consumed / 8): the number of bytes of the NAL unit that hold the
\* header bits consumed, i.e. 8 * (size - 1) < bits_consumed <= 8 * size.
C15_SizeIsCeilOfBits ==
    (pc = "slice_parsed" /\ res.out.some) =>
        /\ BitsConsumed(res.r) <= 8 * res.out.v.size
        /\ BitsConsumed(res.r) > 8 * (res.out.v.size - 1)

\* The unit of test_slice_header_length: size 11, the header ending inside a byte.
C15_Witness ==
    /\ pc = "slice_parsed" /\ res.out.some
    /\ Len(arg.nalu) = 20
    /\ res.out.v.size = 11
    /\ BitsConsumed(res.r) % 8 # 0

\* A header that spans an emulation prevention byte.
C15_WitnessEscaped ==
    /\ pc = "slice_parsed" /\ res.out.some
    /\ \E i \in 3..res.out.v.size - 1 :
           arg.nalu[i - 2] = 0 /\ arg.nalu[i - 1] = 0 /\ arg.nalu[i] = 3

\* The call cannot resolve its parameter sets, or is not given a slice.
Unresolvable(a, sh) ==
    \/ a.nalu = <<>>
    \/ NaluTypeOf(a.nalu[1]) \notin {NaluType.IDR, NaluType.NonIDR}
    \/ sh.pic_param_id \notin DOMAIN a.pps_map
    \/ a.pps_map[sh.pic_param_id].seq_parameter_set_id \notin DOMAIN a.sps_map

\* C16: parse_slice_header returns None when the pic_param_id read from the slice
\* is not a key of the PPS map, when that PPS's seq_parameter_set_id is not a key
\* of the SPS map, and for NAL types other than IDR and NonIDR; every call leaves
\* both maps unchanged.
C16_NoneWhenUnresolved ==
    [][(pc = "slice" /\ pc' = "slice_parsed") =>
           /\ arg'.sps_map = arg.sps_map
           /\ arg'.pps_map = arg.pps_map
           /\ Unresolvable(arg, res'.sh) => ~res'.out.some]_vars

\* A slice that names PPS 1 meets a map holding only PPS 0, with its reader sound.
C16_Witness ==
    /\ pc = "slice_parsed" /\ ~res.out.some
    /\ Len(arg.nalu) > 1
    /\ NaluTypeOf(arg.nalu[1]) = NaluType.IDR
    /\ acc_error(res.r) = "None"
    /\ res.sh.pic_param_id = 1
    /\ DOMAIN arg.pps_map = {0}

\* A PPS is found but the SPS it names is not in the SPS map.
C16_WitnessSps ==
    /\ pc = "slice_parsed" /\ ~res.out.some
    /\ acc_error(res.r) = "None"
    /\ res.sh.pic_param_id \in DOMAIN arg.pps_map
    /\ res.sh.seq_param_id \notin DOMAIN arg.sps_map


-----------------------------------------------------------------------------
(* Properties of the track selectors (subs.rs, video_track.rs) *)

\* A trak matches a selector: its handler and its sample entry are accepted.
Matches(kind, variant) ==
    kind.handler \in HandlerSet(variant) /\ kind.codec \in CodecSet(variant)

\* The offset in moov of the i-th trak of the file.
TrakStart(traks, i) == Len(TraksBytes(SubSeq(traks, 1, i - 1)))

\* C17: the track selector returns the first trak in moov order that matches its
\* handler set and sample entry codes: a trak that does not match is never
\* returned, and no later trak is returned when an earlier trak matches.
C17_FirstMatch ==
    (pc = "track_done" /\ res.k = "some") =>
        \E i \in 1..Len(arg.traks) :
            /\ res.v.start = TrakStart(arg.traks, i)
            /\ Matches(arg.traks[i], arg.variant)
            /\ \A j \in 1..(i - 1) : ~Matches(arg.traks[j], arg.variant)

\* C18: the resolver rejects a track whose stsz, stco, stsc or stts declares more
\* entries than the box holds, and never builds a sizes or durations vector with
\* more elements than the input has bytes.
C18_CountsBounded ==
    pc = "track_done" =>
        /\ res.built.sizes <= Len(arg.data)
        /\ res.built.durations <= Len(arg.data)
        /\ res.k = "some" =>
               \A i \in 1..Len(arg.traks) :
                   res.v.start = TrakStart(arg.traks, i) =>
                       arg.traks[i].tables \notin
                           {"stsz_short", "stco_short", "stsc_short", "stts_short"}

-----------------------------------------------------------------------------
(* Properties of avc/nalus.rs and of the un-escaping routines *)

\* A sample as the concatenation of (u32-be length, length bytes) records: its
\* records in order, or NoValue when a length runs past the end of the sample or
\* bytes remain after the last complete record.
RECURSIVE RecordsFrom(_, _)
RecordsFrom(s, pos) ==
    IF pos = Len(s) THEN Some(<<>>)
    ELSE IF Len(s) - pos < 4 THEN NoValue
    ELSE LET len == FromU32BE(Slice(s, pos, pos + 4))
         IN  IF len > Len(s) - pos - 4 THEN NoValue
             ELSE LET rest == RecordsFrom(s, pos + 4 + len)
                  IN  IF rest.some
                      THEN Some(<<Slice(s, pos + 4, pos + 4 + len)>> \o rest.v)
                      ELSE NoValue

RECURSIVE SumOfLengths(_)
SumOfLengths(nalus) ==
    IF nalus = <<>> THEN 0 ELSE 4 + Len(Head(nalus)) + SumOfLengths(Tail(nalus))

\* C19: get_nalus_from_sample returns None for every malformed sample (a declared
\* length runs past the end of the sample, or bytes remain after the last complete
\* record); for a well-formed non-empty sample it returns the NAL units in order,
\* and their lengths plus 4 each sum to the length of the sample.
C19_NoneIffMalformed ==
    pc = "nalus_done" =>
        LET want == RecordsFrom(arg.sample, 0)
        IN  /\ ~want.some => ~res.some
            /\ (want.some /\ arg.sample # <<>>) =>
                   /\ res = want
                   /\ SumOfLengths(res.v) = Len(arg.sample)

\* The raw bytes without every 0x03 that immediately follows two 0x00 bytes.
RECURSIVE UnescapedFrom(_, _)
UnescapedFrom(data, i) ==
    IF i > Len(data) THEN <<>>
    ELSE IF i > 2 /\ data[i] = 3 /\ data[i - 1] = 0 /\ data[i - 2] = 0
         THEN UnescapedFrom(data, i + 1)
         ELSE <<data[i]>> \o UnescapedFrom(data, i + 1)

\* C20: for every input, remove_emulation_prevention_bytes and the refill of
\* EbspReader drop exactly the 0x03 bytes that immediately follow two consecutive
\* 0x00 bytes of the raw input and keep every other byte in order.
C20_DropsExactlyEscapes ==
    /\ pc \in {"refill", "unescaped"} => res.rbsp = Some(UnescapedFrom(arg.data, 1))
    /\ pc = "unescaped" => res.read = UnescapedFrom(arg.data, 1)

-----------------------------------------------------------------------------
(* Properties of the readers taken together *)

C21_WitnessError ==
    /\ pc = "both"
    /\ r.err # "None" /\ res.br.err # "None"
    /\ r.cur > Len(res.br.rd)

-----------------------------------------------------------------------------
(* Properties of the SPS parser (avc/sps.rs) *)

\* The crop units (cx, cy) of a chroma format; fmo is 1 for frame_mbs_only_flag.
UnitsOfChroma(idc, fmo) ==
    CASE idc = 0 -> <<1, 2 - fmo>>
      [] idc = 1 -> <<2, 2 * (2 - fmo)>>
      [] idc = 2 -> <<2, 2 - fmo>>
      [] idc = 3 -> <<1, 2 - fmo>>
      [] OTHER -> <<0, 0>>

\* The width and height of the picture an Sps describes, as integers.
PictureSize(sps) ==
    LET fmo == IF sps.frame_mbs_only_flag THEN 1 ELSE 0
        u == UnitsOfChroma(sps.chroma_format_idc, fmo)
        across == IF sps.frame_cropping_flag
                  THEN (sps.frame_crop_left_offset + sps.frame_crop_right_offset) * u[1]
                  ELSE 0
        down == IF sps.frame_cropping_flag
                THEN (sps.frame_crop_top_offset + sps.frame_crop_bottom_offset) * u[2]
                ELSE 0
    IN  [width |-> (sps.pic_width_in_mbs_minus1 + 1) * 16 - across,
         height |-> (2 - fmo) * (sps.pic_height_in_map_units_minus1 + 1) * 16 - down]

\* C22: for every SPS that parse_sps_nalu_with_vui accepts, width and height are, as
\* integers, (pic_width_in_mbs_minus1 + 1) * 16 - (crop_left + crop_right) * cx and
\* (2 - fmo) * (pic_height_in_map_units_minus1 + 1) * 16
\* - (crop_top + crop_bottom) * cy, with nothing subtracted without cropping.
C22_WidthAndHeight ==
    (pc = "sps_parsed" /\ res.out.some) =>
        LET size == PictureSize(res.out.v)
        IN  /\ size.width >= 0 /\ size.height >= 0
            /\ res.out.v.width = Nat32(size.width)
            /\ res.out.v.height = Nat32(size.height)

\* C23: every Sps that parse_sps_nalu_with_vui returns has chroma_format_idc in
\* 0..=3, with and without frame cropping: an SPS coding a larger value is
\* rejected.
C23_ChromaFormatInRange ==
    (pc = "sps_parsed" /\ res.out.some) => res.out.v.chroma_format_idc \in 0..3

-----------------------------------------------------------------------------
(* Properties of read_scaling_list *)

\* The i-th delta of the data: the coded ones, then 0.
DeltaAt(ds, i) == IF i <= Len(ds) THEN ds[i] ELSE 0

\* The scaling list of the delta_scale recurrence from entry i on: last_scale is the
\* entry before, latched says that an earlier delta left next_scale at 0.
RECURSIVE ScalesFrom(_, _, _, _, _)
ScalesFrom(ds, i, size, last_scale, latched) ==
    IF i > size THEN <<>>
    ELSE IF latched THEN <<last_scale>> \o ScalesFrom(ds, i + 1, size, last_scale, TRUE)
    ELSE LET next_scale == (last_scale + DeltaAt(ds, i)) % 256
         IN  IF next_scale = 0
             THEN <<last_scale>> \o ScalesFrom(ds, i + 1, size, last_scale, TRUE)
             ELSE <<next_scale>> \o ScalesFrom(ds, i + 1, size, next_scale, FALSE)

\* The number of se(v) codes read for it: one per entry up to the latching one.
RECURSIVE CodesFrom(_, _, _, _)
CodesFrom(ds, i, size, last_scale) ==
    IF i > size THEN 0
    ELSE LET next_scale == (last_scale + DeltaAt(ds, i)) % 256
         IN  IF next_scale = 0 THEN 1 ELSE 1 + CodesFrom(ds, i + 1, size, next_scale)

\* The bits of the first k codes of the data.
RECURSIVE CodeBitsUpTo(_, _)
CodeBitsUpTo(ds, k) ==
    IF k = 0 THEN 0 ELSE Len(SeBits(DeltaAt(ds, k))) + CodeBitsUpTo(ds, k - 1)

\* C24: read_scaling_list returns exactly `size` entries; each entry before the
\* latch is (last_scale + delta_scale) mod 256; once a delta leaves next_scale at 0
\* every remaining entry is the last_scale held then and no further se(v) is read.
C24_ScalingList ==
    pc = "scaling_done" =>
        /\ Len(res.list) = arg.size
        /\ res.list = ScalesFrom(arg.deltas, 1, arg.size, 8, FALSE)
        /\ arg.fill = "ones" =>
               BitsConsumed(res.r)
                   = CodeBitsUpTo(arg.deltas, CodesFrom(arg.deltas, 1, arg.size, 8))

-----------------------------------------------------------------------------
(* Properties of parse_sei_nalu *)

\* The sum of the bytes of `body` from index i up to and including the first
\* byte other than 0xFF, and the index after it; `ok` is FALSE when the body ends
\* before such a byte.
RECURSIVE HeaderSum(_, _)
HeaderSum(body, i) ==
    IF i > Len(body) THEN [ok |-> FALSE, sum |-> 0, next |-> i]
    ELSE IF body[i] # 255 THEN [ok |-> TRUE, sum |-> body[i], next |-> i + 1]
    ELSE LET rest == HeaderSum(body, i + 1)
         IN  [ok |-> rest.ok, sum |-> 255 + rest.sum, next |-> rest.next]

\* The payload records of an SEI body read from index i: `ok` says that the body
\* is made of whole payloads, up to its end or up to a terminator header.
RECURSIVE SeiRecords(_, _)
SeiRecords(body, i) ==
    IF i > Len(body) THEN [ok |-> TRUE, records |-> <<>>]
    ELSE LET type == HeaderSum(body, i)
             size == HeaderSum(body, type.next)
         IN  IF ~type.ok \/ ~size.ok THEN [ok |-> FALSE, records |-> <<>>]
             ELSE IF type.sum = 0 /\ size.sum = 0 THEN [ok |-> TRUE, records |-> <<>>]
             ELSE IF size.next + size.sum - 1 > Len(body)
                  THEN [ok |-> FALSE, records |-> <<>>]
             ELSE LET rest == SeiRecords(body, size.next + size.sum)
                  IN  [ok |-> rest.ok,
                       records |-> <<SubSeq(body, size.next, size.next + size.sum - 1)>>
                                       \o rest.records]

\* C25: for an SEI NAL unit made of whole payloads parse_sei_nalu returns one
\* record per payload, in order, holding the `size` bytes after the type/size
\* header (each the sum of bytes up to the first one != 0xFF); a header with
\* type = 0 and size = 0 ends the parsing and yields no record.
C25_SeiRecords ==
    (pc = "sei_done" /\ Len(arg.nalu) > 0 /\ arg.nalu[1] = 6
        /\ SeiRecords(Tail(arg.nalu), 1).ok)
        => res = Some(SeiRecords(Tail(arg.nalu), 1).records)

-----------------------------------------------------------------------------
(* Termination of parse_slice_header *)

\* The statements outside the loops, the flags in front of the three loops, and
\* one loop iteration for every bit of the NAL unit and one more per loop.
MaxSteps(nalu) == 18 + 3 + 8 * Len(nalu) + 3

\* C26: for every NAL unit and maps parse_slice_header returns a header or None
\* after finitely many steps (it does not fault, and the iterations of the
\* ref_pic_list_modification loops and of the dec_ref_pic_marking loop are bounded
\* by the bits of the NAL unit), and a call that returns with the reader's sticky
\* error set returns None.
C26_SliceHeaderReturns ==
    /\ pc # "panic"
    /\ pc \in {"slice_body", "slice_loop"} => res.steps <= MaxSteps(arg.nalu)
    /\ (pc = "slice_returned" /\ acc_error(res.r) # "None") => ~res.out.some

\* The second ue(v) code of the payload of a slice NAL unit, after the emulation
\* prevention bytes are taken out: slice_type as coded.
CodedSliceType(nalu) ==
    Let(read_ue(NewReader("BitReader", remove_emulation_prevention_bytes(Tail(nalu))),
                "release"), LAMBDA first_mb_in_slice :
        U32ToNat(read_ue(first_mb_in_slice.r, "release").val))

\* C27: when parse_slice_header returns a header h, h.slice_type is the ue(v) value
\* as coded (5..9 are not reduced), and get_slice_type_from_nalu on the same NAL
\* unit returns the SliceType numbered h.slice_type % 5.
C27_SliceTypeAgrees ==
    (pc = "slice_returned" /\ res.out.some) =>
        /\ res.out.v.slice_type = CodedSliceType(arg.nalu)
        /\ get_slice_type_from_nalu(arg.nalu, build)
               = [out |-> Some(res.out.v.slice_type % 5), panic |-> FALSE]

-----------------------------------------------------------------------------
(* Properties of the Annex B scanners *)

\* C28: for every byte stream s the length-prefixed records of
\* convert_bytestream_to_nalu_sample(s) are the NAL units of
\* extract_nalus_from_bytestream(s), in the same order and with the same bytes.
C28_SameNalus ==
    pc = "converted" => NalusLoop(out, 0, <<>>) = Some(extract_nalus_from_bytestream(stream))

\* The NAL units of the given type among the first k units of a stream.
RECURSIVE UnitsOfType(_, _, _)
UnitsOfType(units, k, t) ==
    IF k = 0 THEN <<>>
    ELSE UnitsOfType(units, k - 1, t)
             \o (IF units[k].nalu # <<>> /\ units[k].nalu[1] % 32 = t
                 THEN <<units[k].nalu>> ELSE <<>>)

\* The number of units in front of the first video NAL unit (type 1..5).
RECURSIVE BeforeVideo(_, _)
BeforeVideo(units, i) ==
    IF i > Len(units) THEN Len(units)
    ELSE IF units[i].nalu # <<>> /\ units[i].nalu[1] % 32 \in 1..5 THEN i - 1
    ELSE BeforeVideo(units, i + 1)

\* C29: get_parameter_sets_from_bytestream returns without faulting for every byte
\* stream, also one with an empty NAL unit between two adjacent start codes, and
\* returns exactly the SPS (type 7) and the PPS (type 8) NAL units in front of the
\* first video NAL unit, in stream order.
C29_ParameterSets ==
    /\ pc # "panic"
    /\ pc = "param_sets_done" =>
           /\ res.sps = UnitsOfType(arg.units, BeforeVideo(arg.units, 1), 7)
           /\ res.pps = UnitsOfType(arg.units, BeforeVideo(arg.units, 1), 8)

-----------------------------------------------------------------------------
(* Properties of read_signed *)

\* The 32-bit two's-complement number of a bit string: sign-extended from its
\* first bit.
SignExt32(bits) ==
    [i \in 1..32 |-> IF i <= 32 - Len(bits) THEN bits[1] ELSE bits[i - (32 - Len(bits))]]

\* C30: read_signed(n) with n in 1..=32 on a BitReader with at least n bits left
\* returns the two's-complement value of the next n bits, sign-extended from bit
\* n-1, consumes exactly n bits, and does so without a shift or arithmetic
\* overflow.
C30_ReadSigned ==
    (/\ r.kind = "BitReader" /\ ret.op = "read_signed" /\ ret.n \in 1..32
     /\ r.err = "None" /\ ret.at + ret.n <= 8 * Len(r.rd)) =>
        /\ pc # "panic"
        /\ ret.val = SignExt32(SubSeq(AllBits(r.rd), ret.at + 1, ret.at + ret.n))
        /\ BitsConsumed(r) = ret.at + ret.n

=============================================================================
